---- MODULE Spec2Model ----
(***************************************************************************)
(* Model of the SimpleITK tutorial notebooks                                *)
(*   Python/21_Transforms_and_Resampling.ipynb   (transforms, resampling)   *)
(*   the registration notebook (unnamed/part_000)                           *)
(* Real numbers are fixed-point integers with Scale units per 1.0: every    *)
(* physical coordinate, offset, spacing and matrix entry is an integer      *)
(* number of 1/Scale.  Products are rounded to the nearest unit, the way    *)
(* floating point rounds every product.                                     *)
(***************************************************************************)
EXTENDS Integers, Sequences, FiniteSets, TLC

\* ------------------------------------------------------------------ bounds
Scale == 10 * 10 * 10
MaxSubs == 2
dimension == 2

\* ------------------------------------------------------ fixed-point helpers
Abs(x) == IF x < 0 THEN -x ELSE x

\* a / b rounded to the nearest integer, halves up (b > 0)
RoundDiv(a, b) == (2 * a + b) \div (2 * b)

\* floor(a / b), b > 0
FloorDiv(a, b) == a \div b

VAdd(u, v) == <<u[1] + v[1], u[2] + v[2]>>
VSub(u, v) == <<u[1] - v[1], u[2] - v[2]>>
VNeg(u) == <<-u[1], -u[2]>>

\* row-major 2x2 matrix (entries in 1/Scale) times a vector
MatVec(m, v) ==
  <<RoundDiv(m[1] * v[1] + m[2] * v[2], Scale),
    RoundDiv(m[3] * v[1] + m[4] * v[2], Scale)>>

\* np.dot(a, b) for row-major 2x2 matrices
MatMul(a, b) ==
  <<RoundDiv(a[1] * b[1] + a[2] * b[3], Scale),
    RoundDiv(a[1] * b[2] + a[2] * b[4], Scale),
    RoundDiv(a[3] * b[1] + a[4] * b[3], Scale),
    RoundDiv(a[3] * b[2] + a[4] * b[4], Scale)>>

IdentityMatrix == <<Scale, 0, 0, Scale>>
Zero2 == <<0, 0>>

Det(m) == m[1] * m[4] - m[2] * m[3]

\* inverse of a row-major 2x2 matrix, entries in 1/Scale (Det(m) # 0)
MatInverse(m) ==
  LET d == Det(m)
      q(x) == IF d > 0 THEN RoundDiv(x * Scale, RoundDiv(d, Scale))
                       ELSE RoundDiv(-x * Scale, RoundDiv(-d, Scale))
  IN  <<q(m[4]), q(-m[2]), q(-m[3]), q(m[1])>>

\* np.cos / np.sin of an angle given in degrees, in 1/Scale
Degrees == {-90, -45, -20, 0, 20, 45, 90}
Cos(deg) == CASE deg = 0 -> Scale
              [] deg \in {20, -20} -> 940
              [] deg \in {45, -45} -> 707
              [] deg \in {90, -90} -> 0
Sin(deg) == CASE deg = 0 -> 0
              [] deg = 20 -> 342
              [] deg = -20 -> -342
              [] deg = 45 -> 707
              [] deg = -45 -> -707
              [] deg = 90 -> Scale
              [] deg = -90 -> -Scale

RotationMatrix(deg) == <<Cos(deg), -Sin(deg), Sin(deg), Cos(deg)>>

\* ------------------------------------------------------------- transforms
\* One record shape for every variant; a Composite keeps its sub-transforms
\* in insertion order in subs.
Transform(kind, matrix, center, trans, angle, subs) ==
  [kind |-> kind, matrix |-> matrix, center |-> center,
   angle |-> angle, subs |-> subs, translation |-> trans]

IdentityTransform == Transform("Identity", IdentityMatrix, Zero2, Zero2, 0, <<>>)
TranslationTransform(offset) ==
  Transform("Translation", IdentityMatrix, Zero2, offset, 0, <<>>)
AffineTransform(matrix, center, trans) ==
  Transform("Affine", matrix, center, trans, 0, <<>>)
Euler2DTransform(angle, center, trans) ==
  Transform("Euler2D", RotationMatrix(angle), center, trans, angle, <<>>)
DisplacementFieldTransform ==
  Transform("DisplacementField", IdentityMatrix, Zero2, Zero2, 0, <<>>)
CompositeTransform(subs) ==
  Transform("Composite", IdentityMatrix, Zero2, Zero2, 0, subs)

\* TransformPoint of a non-composite transform
TransformPointSimple(t, p) ==
  CASE t.kind = "Identity" -> p
    [] t.kind = "Translation" -> VAdd(p, t.translation)
    [] t.kind \in {"Affine", "Euler2D"} ->
         VAdd(VAdd(MatVec(t.matrix, VSub(p, t.center)), t.center), t.translation)
    [] OTHER -> p

\* a queue instead of a stack: the sub-transform added first is applied first
RECURSIVE ApplyQueue(_, _, _)
ApplyQueue(subs, k, p) ==
  IF k = 0 THEN p
  ELSE TransformPointSimple(subs[k], ApplyQueue(subs, k - 1, p))

\* the sub-transforms of a Composite form a stack: the one added last is
\* applied to the point first, the one added first is applied last
RECURSIVE ApplyStack(_, _, _)
ApplyStack(subs, k, p) ==
  IF k = 0 THEN p
  ELSE ApplyStack(subs, k - 1, TransformPointSimple(subs[k], p))

TransformPoint(t, p) ==
  IF t.kind = "Composite" THEN ApplyStack(t.subs, Len(t.subs), p)
  ELSE TransformPointSimple(t, p)

\* composite.AddTransform(t)
AddTransform(c, t) == CompositeTransform(Append(c.subs, t))

\* ------------------------------------------------------------- GetInverse
NotInvertibleError ==
  Transform("NotInvertibleError", IdentityMatrix, Zero2, Zero2, 0, <<>>)

HasInverse(t) ==
  CASE t.kind \in {"Identity", "Translation", "Euler2D"} -> TRUE
    [] t.kind = "Affine" -> Det(t.matrix) # 0
    [] t.kind = "Composite" ->
         \A k \in 1..Len(t.subs) :
            CASE t.subs[k].kind \in {"Identity", "Translation", "Euler2D"} -> TRUE
              [] t.subs[k].kind = "Affine" -> Det(t.subs[k].matrix) # 0
              [] OTHER -> FALSE
    [] OTHER -> FALSE

\* an inverse that inverts the matrix and negates the translation, without
\* carrying the translation through the inverse matrix
GetInverseSimple_translation_not_rotated(t) ==
  CASE t.kind = "Identity" -> t
    [] t.kind = "Translation" -> TranslationTransform(VNeg(t.translation))
    [] t.kind = "Affine" ->
         AffineTransform(MatInverse(t.matrix), t.center, VNeg(t.translation))
    [] t.kind = "Euler2D" ->
         Euler2DTransform(-t.angle, t.center, VNeg(t.translation))

\* inverse of x = M(p - c) + c + t  is  p = M^-1(x - c) + c - M^-1 t
GetInverseSimple(t) ==
  CASE t.kind = "Identity" -> t
    [] t.kind = "Translation" -> TranslationTransform(VNeg(t.translation))
    [] t.kind = "Affine" ->
         LET inv == MatInverse(t.matrix)
         IN  AffineTransform(inv, t.center, VNeg(MatVec(inv, t.translation)))
    [] t.kind = "Euler2D" ->
         LET inv == RotationMatrix(-t.angle)
         IN  Euler2DTransform(-t.angle, t.center, VNeg(MatVec(inv, t.translation)))

\* a reversal that keeps the insertion order
Reverse_order_kept(s) == s

\* the sequence back to front
Reverse(s) == [k \in 1..Len(s) |-> s[Len(s) + 1 - k]]

\* GetInverse that looks only at the sub-transform added last
GetInverse_last_sub_checked(t) ==
  IF t.kind = "Composite"
  THEN IF t.subs # <<>> /\ ~HasInverse(t.subs[Len(t.subs)])
       THEN NotInvertibleError
       ELSE CompositeTransform(Reverse([k \in 1..Len(t.subs) |->
                                          IF HasInverse(t.subs[k])
                                          THEN GetInverseSimple(t.subs[k])
                                          ELSE t.subs[k]]))
  ELSE IF ~HasInverse(t) THEN NotInvertibleError ELSE GetInverseSimple(t)

GetInverse(t) ==
  IF ~HasInverse(t) THEN NotInvertibleError
  ELSE IF t.kind = "Composite"
       THEN CompositeTransform(Reverse([k \in 1..Len(t.subs) |-> GetInverseSimple(t.subs[k])]))
       ELSE GetInverseSimple(t)

\* ------------------------------------------------------------------ images
\* pixel (i, j) of an image is pixels[<<i, j>>], 0 <= i < size[1], 0 <= j < size[2]
Indices(size) == (0..(size[1] - 1)) \X (0..(size[2] - 1))

Image(size, origin, spacing, direction, pixels) ==
  [size |-> size, origin |-> origin, spacing |-> spacing,
   direction |-> direction, pixels |-> pixels]

Transpose(m) == <<m[1], m[3], m[2], m[4]>>

\* physical = Origin + Direction . (Spacing * index); idx is a continuous
\* index in 1/Scale
ContinuousIndexToPhysicalPoint(img, idx) ==
  VAdd(img.origin,
       MatVec(img.direction,
              <<RoundDiv(img.spacing[1] * idx[1], Scale),
                RoundDiv(img.spacing[2] * idx[2], Scale)>>))

TransformIndexToPhysicalPoint(img, index) ==
  ContinuousIndexToPhysicalPoint(img, <<index[1] * Scale, index[2] * Scale>>)

\* the continuous index (in 1/Scale) of a physical point; Direction is
\* orthonormal, so its inverse is its transpose
TransformPhysicalPointToContinuousIndex(img, p) ==
  LET v == MatVec(Transpose(img.direction), VSub(p, img.origin))
  IN  <<RoundDiv(v[1] * Scale, img.spacing[1]), RoundDiv(v[2] * Scale, img.spacing[2])>>

\* the image buffer covers [-0.5, size - 0.5) on every axis
IsInsideBuffer(img, ci) ==
  \A a \in 1..2 : /\ 2 * ci[a] >= -Scale
                  /\ 2 * ci[a] < 2 * img.size[a] * Scale - Scale

Clamp(x, lo, hi) == IF x < lo THEN lo ELSE IF x > hi THEN hi ELSE x

\* sitkNearestNeighbor: the pixel at the index rounded half up
NearestNeighbor(img, ci) ==
  img.pixels[<<Clamp(RoundDiv(ci[1], Scale), 0, img.size[1] - 1),
               Clamp(RoundDiv(ci[2], Scale), 0, img.size[2] - 1)>>]

\* sitkLinear: weighted average of the 2^D surrounding pixels, cast to the
\* integer pixel type by rounding
Linear(img, ci) ==
  LET bx == FloorDiv(ci[1], Scale)
      by == FloorDiv(ci[2], Scale)
      fx == ci[1] - bx * Scale
      fy == ci[2] - by * Scale
      px(i, j) == img.pixels[<<Clamp(i, 0, img.size[1] - 1),
                               Clamp(j, 0, img.size[2] - 1)>>]
  IN  RoundDiv((Scale - fx) * (Scale - fy) * px(bx, by)
               + fx * (Scale - fy) * px(bx + 1, by)
               + (Scale - fx) * fy * px(bx, by + 1)
               + fx * fy * px(bx + 1, by + 1), Scale * Scale)

OnPixelCentre(ci) == ci[1] % Scale = 0 /\ ci[2] % Scale = 0

\* sitkCosineWindowedSinc returns the pixel itself at a pixel centre (the
\* kernel is 1 at 0 and 0 at every other integer); between centres its lobes
\* are not representable in fixed point and the linear weights stand in
Interpolate(interpolator, img, ci) ==
  CASE interpolator = "sitkNearestNeighbor" -> NearestNeighbor(img, ci)
    [] interpolator = "sitkLinear" -> Linear(img, ci)
    [] interpolator = "sitkCosineWindowedSinc" ->
         IF OnPixelCentre(ci) THEN NearestNeighbor(img, ci) ELSE Linear(img, ci)

\* Resample that maps the output point through the inverse of the transform
ResamplePixel_inverse_mapped(image, grid, transform, interpolator, defaultValue, index) ==
  LET q == TransformIndexToPhysicalPoint(grid, index)
      p == TransformPoint(GetInverse(transform), q)
      ci == TransformPhysicalPointToContinuousIndex(image, p)
  IN  IF IsInsideBuffer(image, ci) THEN Interpolate(interpolator, image, ci)
      ELSE defaultValue

\* Resample that ignores the interpolator it is given and uses sitkLinear
ResamplePixel_always_linear(image, grid, transform, interpolator, defaultValue, index) ==
  LET q == TransformIndexToPhysicalPoint(grid, index)
      p == TransformPoint(transform, q)
      ci == TransformPhysicalPointToContinuousIndex(image, p)
  IN  IF IsInsideBuffer(image, ci) THEN Linear(image, ci)
      ELSE defaultValue

\* one output pixel of Resample: the output index is mapped to its physical
\* point on the output grid, through the transform into the physical space of
\* the source, and the source is sampled there
ResamplePixel(image, grid, transform, interpolator, defaultValue, index) ==
  LET q == TransformIndexToPhysicalPoint(grid, index)
      p == TransformPoint(transform, q)
      ci == TransformPhysicalPointToContinuousIndex(image, p)
  IN  IF IsInsideBuffer(image, ci) THEN Interpolate(interpolator, image, ci)
      ELSE defaultValue

\* the failure of Resample on a grid it cannot sample: no image is returned
InvalidGridError == Image(<<>>, <<>>, <<>>, <<>>, <<>>)

\* a grid check that lets a Size entry of zero through
InvalidGrid_negative_only(grid) == \E a \in 1..2 : grid.size[a] < 0

\* a Size entry is zero or negative
InvalidGrid(grid) == \E a \in 1..2 : grid.size[a] <= 0

\* a Resample that keeps the geometry of the source instead of the output grid
Resample_on_source_grid(image, grid, transform, interpolator, defaultValue) ==
  Image(image.size, image.origin, image.spacing, image.direction,
        [index \in Indices(image.size) |->
           ResamplePixel(image, image, transform, interpolator,
                         defaultValue, index)])

\* sitk.Resample(image, size, transform, interpolator, outputOrigin,
\*               outputSpacing, outputDirection, defaultPixelValue)
Resample(image, grid, transform, interpolator, defaultValue) ==
  IF InvalidGrid(grid)
  THEN InvalidGridError
  ELSE Image(grid.size, grid.origin, grid.spacing, grid.direction,
             [index \in Indices(grid.size) |->
                ResamplePixel(image, grid, transform, interpolator, defaultValue, index)])

\* a grid whose origin is the corner of the first pixel instead of its centre
GridOf_corner_origin(img) ==
  [size |-> img.size,
   origin |-> <<img.origin[1] - img.spacing[1] \div 2,
                img.origin[2] - img.spacing[2] \div 2>>,
   spacing |-> img.spacing, direction |-> img.direction]

\* geometry of an image used as the output grid (reference image)
GridOf(img) == [size |-> img.size, origin |-> img.origin,
                spacing |-> img.spacing, direction |-> img.direction]

\* ------------------------------------------------------- notebook functions
\* resample called with the inverse of the transform (the common error)
resample_with_inverse(image, transform) ==
  [interpolator |-> "sitkCosineWindowedSinc", image |-> image,
   grid |-> GridOf(image), transform |-> GetInverse(transform),
   defaultValue |-> 100]

\* def resample(image, transform)
resample_default_value == 100
resample(image, transform) ==
  [interpolator |-> "sitkCosineWindowedSinc", image |-> image,
   grid |-> GridOf(image), transform |-> transform,
   defaultValue |-> resample_default_value]

\* a Resample request, executed
Execute(req) ==
  Resample(req.image, req.grid, req.transform, req.interpolator, req.defaultValue)

\* def affine_translate(transform, x_translation, y_translation)
affine_translate(transform, x_translation, y_translation) ==
  AffineTransform(transform.matrix, transform.center, <<x_translation, y_translation>>)

\* def affine_scale(transform, x_scale, y_scale)
affine_scale(transform, x_scale, y_scale) ==
  AffineTransform(<<x_scale, transform.matrix[2], transform.matrix[3], y_scale>>,
                  transform.center, transform.translation)

\* affine_rotate without its new_transform.SetMatrix call
affine_rotate_no_SetMatrix(transform, degrees) ==
  AffineTransform(transform.matrix, transform.center, transform.translation)

\* def affine_rotate(transform, degrees)
affine_rotate(transform, degrees) ==
  AffineTransform(MatMul(RotationMatrix(-degrees), transform.matrix),
                  transform.center, transform.translation)

\* def affine_shear(transform, x_shear, y_shear)
affine_shear(transform, x_shear, y_shear) ==
  AffineTransform(<<transform.matrix[1], -x_shear, -y_shear, transform.matrix[4]>>,
                  transform.center, transform.translation)

\* affine = sitk.AffineTransform(dimension)
NewAffine == AffineTransform(IdentityMatrix, Zero2, Zero2)

\* ------------------------------------------------- output-grid derivation
\* Python compares tuples lexicographically: min(points) / max(points)
LexLess(u, v) == u[1] < v[1] \/ (u[1] = v[1] /\ u[2] < v[2])
LexMin(pts) == CHOOSE u \in pts : \A v \in pts : u = v \/ LexLess(u, v)
LexMax(pts) == CHOOSE u \in pts : \A v \in pts : u = v \/ LexLess(v, u)
\* min(points, key=lambda p: p[1]) / max(points, key=lambda p: p[1])
MinByY(pts) == CHOOSE u \in pts : \A v \in pts : u[2] <= v[2]
MaxByY(pts) == CHOOSE u \in pts : \A v \in pts : u[2] >= v[2]

extreme_points(img) ==
  {TransformIndexToPhysicalPoint(img, <<0, 0>>),
   TransformIndexToPhysicalPoint(img, <<img.size[1], 0>>),
   TransformIndexToPhysicalPoint(img, <<img.size[1], img.size[2]>>),
   TransformIndexToPhysicalPoint(img, <<0, img.size[2]>>)}

\* the corners mapped through the transform itself, not through its inverse
extreme_points_forward(img, transform) ==
  {TransformPoint(transform, pnt) : pnt \in extreme_points(img)}

extreme_points_transformed(img, transform) ==
  {TransformPoint(GetInverse(transform), pnt) : pnt \in extreme_points(img)}

\* int(x / y) for x >= 0, y > 0
IntDiv(x, y) == x \div y

\* output_origin, output_size, output_spacing, output_direction of the cell
output_grid(img, transform) ==
  LET pts == extreme_points_transformed(img, transform)
      min_x == LexMin(pts)[1]
      min_y == MinByY(pts)[2]
      max_x == LexMax(pts)[1]
      max_y == MaxByY(pts)[2]
  IN  [size |-> <<IntDiv(max_x - min_x, img.spacing[1]),
                  IntDiv(max_y - min_y, img.spacing[2])>>,
       origin |-> <<min_x, min_y>>,
       spacing |-> img.spacing,
       direction |-> IdentityMatrix]

\* euler2d.SetCenter(logo.TransformContinuousIndexToPhysicalPoint(size / 2.0))
logo_center(img) ==
  ContinuousIndexToPhysicalPoint(img, <<(img.size[1] * Scale) \div 2,
                                        (img.size[2] * Scale) \div 2>>)

\* ------------------------------------------------------------------- inputs
GridPixelA(i, j) == 10 * (i + 3 * j)
GridPixelB(i, j) == 1 + ((i + j) % 3)
LogoPixelA(i, j) == 20 + 5 * i + j
LogoPixelB(i, j) == 7 * ((i * j) % 2)

\* the grid image (GridSource) and the logo image (read from a file)
Grids ==
  {Image(<<3, 3>>, Zero2, <<10 * Scale, 10 * Scale>>, IdentityMatrix,
         [index \in Indices(<<3, 3>>) |-> GridPixelA(index[1], index[2])]),
   Image(<<4, 2>>, Zero2, <<10 * Scale, 20 * Scale>>, IdentityMatrix,
         [index \in Indices(<<4, 2>>) |-> GridPixelB(index[1], index[2])])}
Logos ==
  {Image(<<4, 2>>, Zero2, <<Scale, Scale>>, IdentityMatrix,
         [index \in Indices(<<4, 2>>) |-> LogoPixelA(index[1], index[2])]),
   Image(<<3, 3>>, <<-Scale, 500>>, <<Scale, 2 * Scale>>, IdentityMatrix,
         [index \in Indices(<<3, 3>>) |-> LogoPixelB(index[1], index[2])])}

\* offsets given to translation.SetOffset; (3.1, 4.6) is the cell's
Offsets == {<<3100, 4600>>, <<10 * Scale, 0>>}
\* translate / rotate of the composite cells; (8.0, 16.0) and 20.0 are the cell's
Translates == {<<8 * Scale, 16 * Scale>>, <<10 * Scale, 0>>}
Rotates == {20, 90}
\* slider values of the interact widgets
SliderTranslations == {<<3100, 4600>>, <<-5 * Scale, 0>>}
SliderScales == {<<3 * Scale, 700>>, <<Scale, 2 * Scale>>}
SliderDegrees == {-90, 20}
SliderShears == {<<300, 100>>, <<Scale, Scale>>}
DisplayTx == {0, 2500}
DisplayTy == {0, -Scale}
DisplayTheta == {0, 20, -45}
\* euler2d of the grid cell: translation (64, 32), angle 0 or as the reader sets it
GridAngles == {0, 45, 90}

NoImage == Image(<<0, 0>>, Zero2, <<Scale, Scale>>, IdentityMatrix, <<>>)
NoRequest ==
  [interpolator |-> "none", image |-> NoImage, grid |-> GridOf(NoImage),
   transform |-> IdentityTransform, defaultValue |-> 0]

\* -------------------------------------------------------------------- state
VARIABLES
  pc,           \* the next cell of the notebook
  grid,         \* the grid image
  logo,         \* the logo image
  translate,    \* translate = (8.0, 16.0)
  rotate,       \* rotate = 20.0
  identity,     \* sitk.Transform(dimension, sitk.sitkIdentity)
  translation,  \* the TranslationTransform object
  affine,       \* the AffineTransform object
  composite,    \* the CompositeTransform object
  euler2d,      \* the Euler2DTransform object
  request,      \* arguments of the latest Resample call
  resampled,    \* result of the latest Resample call
  title,        \* title of the figure that shows resampled ("" for plt.imshow)
  single        \* Resample call and result of the "Single Transform" figure

\* the registration notebook
VARIABLES
  rpc,                     \* the next cell of the registration notebook
  selected_series_fixed,   \* global set by the dropdown callback
  selected_series_moving,  \* global set by the dropdown callback
  callback,                \* the invocation of the dropdown callback in progress
  fixed_image,             \* the fixed image
  moving_image,            \* the moving image
  initial_transform,       \* result of CenteredTransformInitializer
  optimized_transform,     \* the transform optimized by Version 1.1
  final_transform_v1,      \* result of Version 1
  final_transform_v11,     \* composite built after Version 1.1
  final_transform,         \* the transform optimized in place by Version 2
  saved                    \* files written by the latest save_transform_and_image

\* the thumbnail cells of the resampling notebook
VARIABLES
  images,          \* the images loaded from file_names
  new_size,        \* the size asked of resize_and_scale_uint8
  resized_images   \* results of resize_and_scale_uint8, one per image

\* calls of the library outside the cells
VARIABLES
  composite_inverse,  \* what the latest composite.GetInverse() returned
  last_set            \* the latest parameter setter called and its argument

\* the image loading loop of the thumbnail cells
VARIABLES
  file_names,         \* the names of the files to read
  iteration,          \* number of files the loop has gone through
  image_file_reader,  \* the ImageFileReader shared by the iterations
  raised              \* the exception that ended the loop, <<>> if none

\* one Resample call, its per-pixel loop run by workers
VARIABLES
  job,          \* the source image, output grid and transform the caller holds
  called_with,  \* the arguments as they were when Resample was called
  phase,        \* "idle", "running", "failed" or "finished"
  todo,         \* per worker, the output indices it still has to write
  buffer,       \* the output buffer: a value per output index
  written,      \* per output index, the workers that wrote it, in order
  outcome       \* what the call returned

\* the Pythonic image notebook
VARIABLES
  pythonic_img,    \* img: the image the cells index and compare
  keys,            \* the subscripts applied to img, one after the other
  comparison,      \* the comparisons of the latest cell: <<operator, threshold>> each
  pythonic_shown   \* the image the latest cell passed to myshow

resampling_vars ==
  <<pc, grid, logo, translate, rotate, identity, translation, affine,
    composite, euler2d, request, resampled, title, single>>
registration_vars ==
  <<rpc, selected_series_fixed, selected_series_moving, callback, fixed_image,
    moving_image, initial_transform, optimized_transform, final_transform_v1,
    final_transform_v11, final_transform, saved>>
thumbnail_vars == <<images, new_size, resized_images>>
pythonic_vars == <<pythonic_img, keys, comparison, pythonic_shown>>

call_vars == <<composite_inverse, last_set>>
worker_vars == <<job, called_with, phase, todo, buffer, written, outcome>>
loader_vars == <<file_names, iteration, image_file_reader, raised>>

vars == <<resampling_vars, registration_vars, thumbnail_vars, pythonic_vars, call_vars,
          worker_vars, loader_vars>>

\* what the cells of one part leave alone: the state of the other parts
outside_resampling ==
  <<registration_vars, thumbnail_vars, pythonic_vars, call_vars, worker_vars, loader_vars>>
outside_registration ==
  <<resampling_vars, thumbnail_vars, pythonic_vars, call_vars, worker_vars, loader_vars>>
outside_thumbnails ==
  <<resampling_vars, registration_vars, pythonic_vars, call_vars, worker_vars, loader_vars>>
outside_pythonic ==
  <<resampling_vars, registration_vars, thumbnail_vars, call_vars, worker_vars, loader_vars>>


\* a part of the repository whose notebook is not running
NoCallback == [pc |-> "idle", fixed_image |-> "", moving_image |-> "", table |-> <<>>]
NoFiles == [prefix |-> "", tfm |-> IdentityTransform, mha |-> NoImage]
ResamplingIdle ==
  /\ pc = "closed"
  /\ grid = NoImage
  /\ logo = NoImage
  /\ translate = Zero2
  /\ rotate = 0
  /\ identity = IdentityTransform
  /\ translation = IdentityTransform
  /\ affine = IdentityTransform
  /\ composite = IdentityTransform
  /\ euler2d = IdentityTransform
  /\ request = NoRequest
  /\ resampled = NoImage
  /\ title = ""
  /\ single = [image |-> NoImage, request |-> NoRequest]
RegistrationIdle ==
  /\ rpc = "closed"
  /\ selected_series_fixed = ""
  /\ selected_series_moving = ""
  /\ callback = NoCallback
  /\ fixed_image = NoImage
  /\ moving_image = NoImage
  /\ initial_transform = IdentityTransform
  /\ optimized_transform = IdentityTransform
  /\ final_transform_v1 = IdentityTransform
  /\ final_transform_v11 = IdentityTransform
  /\ final_transform = IdentityTransform
  /\ saved = NoFiles
ThumbnailsIdle ==
  /\ images = <<>>
  /\ new_size = <<>>
  /\ resized_images = <<>>
NewReader == [fileName |-> "", extractSize |-> <<>>, extractIndex |-> <<>>]
LoaderIdle ==
  /\ file_names = <<>>
  /\ iteration = 0
  /\ image_file_reader = NewReader
  /\ raised = <<>>
WorkersIdle ==
  /\ job = NoRequest
  /\ called_with = NoRequest
  /\ phase = "idle"
  /\ todo = <<>>
  /\ buffer = <<>>
  /\ written = <<>>
  /\ outcome = [image |-> NoImage, error |-> ""]
NoSetter == [setter |-> "", argument |-> <<>>]
CallsIdle == composite_inverse = IdentityTransform /\ last_set = NoSetter
NoArray == [size |-> <<>>, pixels |-> <<>>, pixelID |-> "none"]
PythonicIdle ==
  /\ pythonic_img = NoArray
  /\ keys = <<>>
  /\ comparison = <<>>
  /\ pythonic_shown = NoArray

Init ==
  /\ pc = "translation"
  /\ grid \in Grids
  /\ logo \in Logos
  /\ translate \in Translates
  /\ rotate \in Rotates
  /\ identity = IdentityTransform
  /\ translation = TranslationTransform(<<3100, 4400>>)
  /\ affine = affine_translate(NewAffine, 3100, 4400)
  /\ composite = CompositeTransform(<<>>)
  /\ euler2d = Euler2DTransform(0, Zero2, Zero2)
  /\ request = NoRequest
  /\ resampled = NoImage
  /\ title = ""
  /\ single = [image |-> NoImage, request |-> NoRequest]
  /\ RegistrationIdle
  /\ ThumbnailsIdle
  /\ PythonicIdle
  /\ CallsIdle
  /\ WorkersIdle
  /\ LoaderIdle

\* translation.SetOffset(offset); resampled = resample(grid, translation)
ResampleTranslation(offsets) ==
  /\ pc = "translation"
  /\ \E offset \in offsets :
       /\ translation' = TranslationTransform(offset)
       /\ request' = resample(grid, translation')
  /\ resampled' = Execute(request')
  /\ title' = "Resampled Translation"
  /\ pc' = "inverse"
  /\ UNCHANGED <<grid, logo, translate, rotate, identity, affine, composite,
                 euler2d, single>>
  /\ UNCHANGED outside_resampling

ResampleTranslationCell == ResampleTranslation(Offsets)

\* translation.SetOffset(-1 * np.array(translation.GetParameters()))
InverseResampledCell ==
  /\ pc = "inverse"
  /\ translation' = TranslationTransform(VNeg(translation.translation))
  /\ request' = resample(grid, translation')
  /\ resampled' = Execute(request')
  /\ title' = "Inverse Resampled"
  /\ pc' = "interact"
  /\ UNCHANGED <<grid, logo, translate, rotate, identity, affine, composite,
                 euler2d, single>>
  /\ UNCHANGED outside_resampling

\* the four interact widgets call their function on a fresh AffineTransform
\* and drop the transform it returns
Interact(new_transform, shown) ==
  /\ pc = "interact"
  /\ affine' = NewAffine
  /\ request' = resample(grid, new_transform)
  /\ resampled' = Execute(request')
  /\ title' = shown
  /\ UNCHANGED <<pc, grid, logo, translate, rotate, identity, translation,
                 composite, euler2d, single>>
  /\ UNCHANGED outside_resampling

AffineTranslateInteract ==
  \E t \in SliderTranslations : Interact(affine_translate(NewAffine, t[1], t[2]), "Translated")
AffineScaleInteract ==
  \E sc \in SliderScales : Interact(affine_scale(NewAffine, sc[1], sc[2]), "Scaled")
AffineRotateInteract ==
  \E degrees \in SliderDegrees : Interact(affine_rotate(NewAffine, degrees), "Rotated")
AffineShearInteract ==
  \E sh \in SliderShears : Interact(affine_shear(NewAffine, sh[1], sh[2]), "Sheared")

\* affine = affine_rotate(affine_translate(AffineTransform, translate), rotate)
SingleTransformCell ==
  /\ pc = "interact"
  /\ affine' = affine_rotate(affine_translate(NewAffine, translate[1], translate[2]),
                             rotate)
  /\ request' = resample(grid, affine')
  /\ resampled' = Execute(request')
  /\ title' = "Single Transform"
  /\ single' = [image |-> resampled', request |-> request']
  /\ pc' = "two"
  /\ UNCHANGED <<grid, logo, translate, rotate, identity, translation,
                 composite, euler2d>>
  /\ UNCHANGED outside_resampling

\* the composite of the "Two Transforms" cell, statement by statement
two_transforms_translation == TranslationTransform(VNeg(translate))
two_transforms_affine == affine_rotate(NewAffine, rotate)
two_transforms_composite ==
  LET composite1 == CompositeTransform(<<>>)
      composite2 == AddTransform(composite1, two_transforms_translation)
      composite3 == AddTransform(composite2, two_transforms_translation)
      composite4 == CompositeTransform(<<>>)
  IN  AddTransform(composite4, two_transforms_affine)

TwoTransformsCell ==
  /\ pc = "two"
  /\ translation' = two_transforms_translation
  /\ affine' = two_transforms_affine
  /\ composite' = two_transforms_composite
  /\ request' = resample(grid, composite')
  /\ resampled' = Execute(request')
  /\ title' = "Two Transforms"
  /\ pc' = "reverse"
  /\ UNCHANGED <<grid, logo, translate, rotate, identity, euler2d, single>>
  /\ UNCHANGED outside_resampling

\* the two AddTransform calls of the cell exchanged
reverse_order_composite_swapped(a, t) ==
  AddTransform(AddTransform(CompositeTransform(<<>>), t), a)

\* composite.AddTransform(affine); composite.AddTransform(translation)
reverse_order_composite(a, t) ==
  AddTransform(AddTransform(CompositeTransform(<<>>), a), t)

ReverseOrderCell ==
  /\ pc = "reverse"
  /\ composite' = reverse_order_composite(affine, translation)
  /\ request' = resample(grid, composite')
  /\ resampled' = Execute(request')
  /\ title' = "Composite transform in reverse order"
  /\ pc' = "display"
  /\ UNCHANGED <<grid, logo, translate, rotate, identity, translation, affine,
                 euler2d, single>>
  /\ UNCHANGED outside_resampling

\* sitk.Resample(image, transform): the image's own grid, sitkLinear, 0
resample_display_request(image, transform) ==
  [interpolator |-> "sitkLinear", image |-> image, grid |-> GridOf(image),
   transform |-> transform, defaultValue |-> 0]

\* def resample_display(image, euler2d_transform, tx, ty, theta), called by
\* the widget on the euler2d object centred on the logo
resample_display ==
  /\ pc = "display"
  /\ \E tx \in DisplayTx, ty \in DisplayTy, theta \in DisplayTheta :
       euler2d' = Euler2DTransform(theta, logo_center(logo), <<tx, ty>>)
  /\ request' = resample_display_request(logo, euler2d')
  /\ resampled' = Execute(request')
  /\ title' = ""
  /\ UNCHANGED <<pc, grid, logo, translate, rotate, identity, translation,
                 affine, composite, single>>
  /\ UNCHANGED outside_resampling

\* tx = 64; ty = 32
grid_cell_translation == <<64 * Scale, 32 * Scale>>

\* the cell that derives the resampling grid from the corners of the logo
GridDerivationCell ==
  /\ pc = "display"
  /\ \E angle \in GridAngles :
       euler2d' = Euler2DTransform(angle, logo_center(logo), grid_cell_translation)
  /\ request' = [interpolator |-> "sitkLinear", image |-> logo,
                 grid |-> output_grid(logo, euler2d'),
                 transform |-> euler2d', defaultValue |-> 0]
  /\ resampled' = Execute(request')
  /\ title' = ""
  /\ pc' = "done"
  /\ UNCHANGED <<grid, logo, translate, rotate, identity, translation, affine,
                 composite, single>>
  /\ UNCHANGED outside_resampling

\* composite = sitk.CompositeTransform(dimension)
NewCompositeCall ==
  /\ pc = "done"
  /\ composite.subs # <<>>
  /\ composite' = CompositeTransform(<<>>)
  /\ UNCHANGED <<pc, grid, logo, translate, rotate, identity, translation,
                 affine, euler2d, request, resampled, title, single>>
  /\ UNCHANGED outside_resampling

\* composite.AddTransform(t) on one of the transform objects of the notebook
AddTransformCall ==
  /\ pc = "done"
  /\ Len(composite.subs) < MaxSubs
  /\ \E t \in {affine, translation} : composite' = AddTransform(composite, t)
  /\ UNCHANGED <<pc, grid, logo, translate, rotate, identity, translation,
                 affine, euler2d, request, resampled, title, single>>
  /\ UNCHANGED outside_resampling

\* the transform objects of the notebook and their inverses
TransformObjects == {identity, translation, affine, composite, euler2d}
Transforms ==
  TransformObjects \cup {GetInverse(t) : t \in {o \in TransformObjects : HasInverse(o)}}

Interpolators == {"sitkNearestNeighbor", "sitkLinear"}

\* the procedural interface, Resample(image1, referenceImage, transform,
\* interpolator, defaultPixelValue), called on the objects of the notebook
ResampleCall ==
  /\ pc = "done"
  /\ \E image \in {grid, logo}, reference \in {grid, logo}, t \in Transforms,
        interpolator \in Interpolators :
       request' = [interpolator |-> interpolator, image |-> image,
                   grid |-> GridOf(reference), transform |-> t,
                   defaultValue |-> resample_default_value]
  /\ resampled' = Execute(request')
  /\ title' = ""
  /\ pc' = "end"
  /\ UNCHANGED <<grid, logo, translate, rotate, identity, translation,
                 affine, composite, euler2d, single>>
  /\ UNCHANGED outside_resampling

Next ==
  \/ ResampleTranslationCell
  \/ InverseResampledCell
  \/ AffineTranslateInteract
  \/ AffineScaleInteract
  \/ AffineRotateInteract
  \/ AffineShearInteract
  \/ SingleTransformCell
  \/ TwoTransformsCell
  \/ ReverseOrderCell
  \/ resample_display
  \/ GridDerivationCell
  \/ NewCompositeCall
  \/ AddTransformCall
  \/ ResampleCall

Spec == Init /\ [][Next]_vars

\* ------------------------------------- the translation cells on a 64x64 image
\* a source with Size=[64,64], Spacing=[1,1], Origin=[0,0]; no pixel is 100
SourceSize == 64
SourcePixel(i, j) == (i + 2 * j) % 50
Source64 ==
  Image(<<SourceSize, SourceSize>>, Zero2, <<Scale, Scale>>, IdentityMatrix,
        [index \in Indices(<<SourceSize, SourceSize>>) |-> SourcePixel(index[1], index[2])])

\* whole-pixel offsets of at most MaxShift pixels on each axis
MaxShift == 4
Shifts == {<<x * Scale, y * Scale>> : x \in (-MaxShift)..MaxShift, y \in (-MaxShift)..MaxShift}

InitSource ==
  /\ pc = "translation"
  /\ grid = Source64
  /\ logo \in {l \in Logos : l.size = <<4, 2>>}
  /\ translate = <<8 * Scale, 16 * Scale>>
  /\ rotate = 20
  /\ identity = IdentityTransform
  /\ translation = TranslationTransform(<<3100, 4400>>)
  /\ affine = affine_translate(NewAffine, 3100, 4400)
  /\ composite = CompositeTransform(<<>>)
  /\ euler2d = Euler2DTransform(0, Zero2, Zero2)
  /\ request = NoRequest
  /\ resampled = NoImage
  /\ title = ""
  /\ single = [image |-> NoImage, request |-> NoRequest]
  /\ RegistrationIdle
  /\ ThumbnailsIdle
  /\ PythonicIdle
  /\ CallsIdle
  /\ WorkersIdle
  /\ LoaderIdle

ResampleShiftCell == ResampleTranslation(Shifts)

NextSource == ResampleShiftCell \/ InverseResampledCell

SpecSource == InitSource /\ [][NextSource]_vars

\* ---------------------------------------------------- registration notebook
\* the DICOM series of the data directory, in the order of the dropdowns
series_IDs == <<"ct", "mr">>
SeriesSet == {series_IDs[k] : k \in 1..Len(series_IDs)}

\* sitk.ReadImage(series_file_names[series])
CTPixel(i, j) == 100 + 10 * i + j
MRPixel(i, j) == 3 * i + 40 * j
ReadImage(series) ==
  IF series = "ct"
  THEN Image(<<3, 3>>, Zero2, <<Scale, Scale>>, IdentityMatrix,
             [index \in Indices(<<3, 3>>) |-> CTPixel(index[1], index[2])])
  ELSE Image(<<4, 2>>, <<2 * Scale, -Scale>>, <<Scale, 2 * Scale>>, IdentityMatrix,
             [index \in Indices(<<4, 2>>) |-> MRPixel(index[1], index[2])])

\* number of entries of tags_to_print that the callback's loop visits
MaxTags == 2

\* the dropdown widget invokes the callback: on creation with the first option
\* of both dropdowns, later with any selection
CallbackInvoke ==
  /\ rpc = "select"
  /\ callback.pc = "idle"
  /\ \E f \in SeriesSet, m \in SeriesSet :
       /\ callback.fixed_image = "" => (f = series_IDs[1] /\ m = series_IDs[1])
       /\ callback' = [pc |-> "tags", fixed_image |-> f, moving_image |-> m,
                       table |-> <<>>]
  /\ UNCHANGED <<rpc, selected_series_fixed, selected_series_moving, fixed_image,
                 moving_image, initial_transform, optimized_transform,
                 final_transform_v1, final_transform_v11, final_transform, saved>>
  /\ UNCHANGED outside_registration

\* one pass of "for tag in tags_to_print": GetMetaData returns the tag or
\* raises, and the bare except leaves the empty string
CallbackTag ==
  /\ callback.pc = "tags"
  /\ Len(callback.table) < MaxTags
  /\ \E fixed_tag \in {"", "tag"}, moving_tag \in {"", "tag"} :
       callback' = [callback EXCEPT !.table = Append(@, <<fixed_tag, moving_tag>>)]
  /\ UNCHANGED <<rpc, selected_series_fixed, selected_series_moving, fixed_image,
                 moving_image, initial_transform, optimized_transform,
                 final_transform_v1, final_transform_v11, final_transform, saved>>
  /\ UNCHANGED outside_registration

\* the two assignments exchanged
callback_assignment_swapped(cb) == <<cb.moving_image, cb.fixed_image>>

\* selected_series_fixed = fixed_image; selected_series_moving = moving_image
callback_assignment(cb) == <<cb.fixed_image, cb.moving_image>>

\* display(HTML(...)) and the assignments to the two globals
CallbackAssign ==
  /\ callback.pc = "tags"
  /\ Len(callback.table) = MaxTags
  /\ selected_series_fixed' = callback_assignment(callback)[1]
  /\ selected_series_moving' = callback_assignment(callback)[2]
  /\ callback' = [callback EXCEPT !.pc = "idle"]
  /\ UNCHANGED <<rpc, fixed_image, moving_image, initial_transform,
                 optimized_transform, final_transform_v1, final_transform_v11,
                 final_transform, saved>>
  /\ UNCHANGED outside_registration

\* fixed_image = sitk.ReadImage(series_file_names[selected_series_fixed]); ...
ReadCell ==
  /\ rpc = "select"
  /\ callback.pc = "idle"
  /\ selected_series_fixed # ""
  /\ fixed_image' = ReadImage(selected_series_fixed)
  /\ moving_image' = ReadImage(selected_series_moving)
  /\ rpc' = "initial"
  /\ UNCHANGED <<selected_series_fixed, selected_series_moving, callback,
                 initial_transform, optimized_transform, final_transform_v1,
                 final_transform_v11, final_transform, saved>>
  /\ UNCHANGED outside_registration

\* geometric centre of an image
GeometryCenter(img) ==
  ContinuousIndexToPhysicalPoint(img, <<((img.size[1] - 1) * Scale) \div 2,
                                        ((img.size[2] - 1) * Scale) \div 2>>)

\* sitk.CenteredTransformInitializer(fixed, moving, Euler transform, GEOMETRY);
\* the notebook's Euler3DTransform is the rigid transform of this dimension
CenteredTransformInitializer(fixed, moving) ==
  Euler2DTransform(0, GeometryCenter(fixed),
                   VSub(GeometryCenter(moving), GeometryCenter(fixed)))

\* the file pair written by save_transform_and_image: the moving image
\* resampled onto the grid of the fixed image (SetReferenceImage), sitkLinear
save_transform_and_image(transform, fixed, moving, outputfile_prefix) ==
  [prefix |-> outputfile_prefix,
   tfm |-> transform,
   mha |-> Resample(moving, GridOf(fixed), transform, "sitkLinear", 0)]

InitialAlignmentCell ==
  /\ rpc = "initial"
  /\ initial_transform' = CenteredTransformInitializer(fixed_image, moving_image)
  /\ saved' = save_transform_and_image(initial_transform', fixed_image,
                                       moving_image, "initialAlignment")
  /\ rpc' = "v1"
  /\ UNCHANGED <<selected_series_fixed, selected_series_moving, callback,
                 fixed_image, moving_image, optimized_transform,
                 final_transform_v1, final_transform_v11, final_transform>>
  /\ UNCHANGED outside_registration

\* parameters the optimizer may end on; the centre is a fixed parameter
OptimizerAngles == {0, 20}
OptimizerTranslations == {Zero2, <<2 * Scale, -Scale>>}
Optimize(t) ==
  {Euler2DTransform(angle, t.center, tr) :
     angle \in OptimizerAngles, tr \in OptimizerTranslations}

\* every transform given to the registration is modified in place
AfterExecute_always_in_place(transform, inPlace, optimized) == optimized

\* the transform object given to the registration, after Execute: modified
\* when it is optimized in place, untouched otherwise
AfterExecute(transform, inPlace, optimized) ==
  IF inPlace THEN optimized ELSE transform

\* Version 1: SetInitialTransform(initial_transform, inPlace=False)
Version1Cell ==
  /\ rpc = "v1"
  /\ \E optimized \in Optimize(initial_transform) :
       /\ final_transform_v1' = optimized
       /\ initial_transform' = AfterExecute(initial_transform, FALSE, optimized)
  /\ rpc' = "v1_save"
  /\ UNCHANGED <<selected_series_fixed, selected_series_moving, callback,
                 fixed_image, moving_image, optimized_transform,
                 final_transform_v11, final_transform, saved>>
  /\ UNCHANGED outside_registration

Version1SaveCell ==
  /\ rpc = "v1_save"
  /\ saved' = save_transform_and_image(final_transform_v1, fixed_image,
                                       moving_image, "finalAlignment-v1")
  /\ rpc' = "v11"
  /\ UNCHANGED <<selected_series_fixed, selected_series_moving, callback,
                 fixed_image, moving_image, initial_transform,
                 optimized_transform, final_transform_v1, final_transform_v11,
                 final_transform>>
  /\ UNCHANGED outside_registration

\* the composite built with the two transforms exchanged
compose_v11_swapped(optimized, initial) ==
  AddTransform(CompositeTransform(<<initial>>), optimized)

\* final_transform_v11 = sitk.CompositeTransform(optimized_transform)
\* final_transform_v11.AddTransform(initial_transform)
compose_v11(optimized, initial) ==
  AddTransform(CompositeTransform(<<optimized>>), initial)

\* Version 1.1: SetMovingInitialTransform(initial_transform),
\* SetInitialTransform(optimized_transform)
Version11Cell ==
  /\ rpc = "v11"
  /\ \E optimized \in Optimize(Euler2DTransform(0, Zero2, Zero2)) :
       /\ optimized_transform' =
            AfterExecute(Euler2DTransform(0, Zero2, Zero2), TRUE, optimized)
       /\ initial_transform' = AfterExecute(initial_transform, FALSE, optimized)
  /\ final_transform_v11' = compose_v11(optimized_transform', initial_transform')
  /\ rpc' = "v11_save"
  /\ UNCHANGED <<selected_series_fixed, selected_series_moving, callback,
                 fixed_image, moving_image, final_transform_v1, final_transform,
                 saved>>
  /\ UNCHANGED outside_registration

Version11SaveCell ==
  /\ rpc = "v11_save"
  /\ saved' = save_transform_and_image(final_transform_v11, fixed_image,
                                       moving_image, "finalAlignment-v1.1")
  /\ rpc' = "v2"
  /\ UNCHANGED <<selected_series_fixed, selected_series_moving, callback,
                 fixed_image, moving_image, initial_transform,
                 optimized_transform, final_transform_v1, final_transform_v11,
                 final_transform>>
  /\ UNCHANGED outside_registration

\* Version 2: final_transform = Euler3DTransform(initial_transform), optimized
\* in place
Version2Cell ==
  /\ rpc = "v2"
  /\ \E optimized \in Optimize(initial_transform) :
       final_transform' = AfterExecute(initial_transform, TRUE, optimized)
  /\ rpc' = "v2_save"
  /\ UNCHANGED <<selected_series_fixed, selected_series_moving, callback,
                 fixed_image, moving_image, initial_transform,
                 optimized_transform, final_transform_v1, final_transform_v11,
                 saved>>
  /\ UNCHANGED outside_registration

Version2SaveCell ==
  /\ rpc = "v2_save"
  /\ saved' = save_transform_and_image(final_transform, fixed_image,
                                       moving_image, "finalAlignment-v2")
  /\ rpc' = "finished"
  /\ UNCHANGED <<selected_series_fixed, selected_series_moving, callback,
                 fixed_image, moving_image, initial_transform,
                 optimized_transform, final_transform_v1, final_transform_v11,
                 final_transform>>
  /\ UNCHANGED outside_registration

InitRegistration ==
  /\ ResamplingIdle
  /\ ThumbnailsIdle
  /\ PythonicIdle
  /\ CallsIdle
  /\ WorkersIdle
  /\ LoaderIdle
  /\ rpc = "select"
  /\ selected_series_fixed = ""
  /\ selected_series_moving = ""
  /\ callback = NoCallback
  /\ fixed_image = NoImage
  /\ moving_image = NoImage
  /\ initial_transform = IdentityTransform
  /\ optimized_transform = IdentityTransform
  /\ final_transform_v1 = IdentityTransform
  /\ final_transform_v11 = IdentityTransform
  /\ final_transform = IdentityTransform
  /\ saved = NoFiles

NextRegistration ==
  \/ CallbackInvoke
  \/ CallbackTag
  \/ CallbackAssign
  \/ ReadCell
  \/ InitialAlignmentCell
  \/ Version1Cell
  \/ Version1SaveCell
  \/ Version11Cell
  \/ Version11SaveCell
  \/ Version2Cell
  \/ Version2SaveCell

SpecRegistration == InitRegistration /\ [][NextRegistration]_vars

\* both notebooks: a kernel runs the cells of one of them
InitNotebooks == Init \/ InitRegistration
NextNotebooks == Next \/ NextRegistration
SpecNotebooks == InitNotebooks /\ [][NextNotebooks]_vars

\* ----------------------------------------------------------- thumbnail cells
\* an image of the images list: its pixel type and one scalar Image per
\* component, all on the same grid
LoadedImage(pixelID, channels) == [pixelID |-> pixelID, channels |-> channels]
GetNumberOfComponentsPerPixel(image) == Len(image.channels)
GetPixelID(image) == image.pixelID
GetSize(image) == image.channels[1].size
GetSpacing(image) == image.channels[1].spacing

\* the error of Python's division in the new_spacing comprehension
ZeroDivisionError == LoadedImage("ZeroDivisionError", <<>>)

\* sitk.RescaleIntensity(image): linear map of [min, max] onto [0, 255]
RescaleIntensity(img) ==
  LET values == {img.pixels[k] : k \in Indices(img.size)}
      lo == CHOOSE v \in values : \A w \in values : v <= w
      hi == CHOOSE v \in values : \A w \in values : v >= w
  IN  [img EXCEPT !.pixels =
         [k \in Indices(img.size) |->
            IF hi = lo THEN 0 ELSE ((img.pixels[k] - lo) * 255) \div (hi - lo)]]

\* sitk.Cast(image, sitk.sitkUInt8)
CastUInt8(img) ==
  [img EXCEPT !.pixels = [k \in Indices(img.size) |-> img.pixels[k] % 256]]

Max(a, b) == IF a >= b THEN a ELSE b

\* def resize_and_scale_uint8(image, new_size, outside_pixel_value=0)
resize_and_scale_uint8(image, size, outside_pixel_value) ==
  LET final_image ==
        IF GetNumberOfComponentsPerPixel(image) = 1 /\ GetPixelID(image) # "sitkUInt8"
        THEN LoadedImage("sitkUInt8", <<CastUInt8(RescaleIntensity(image.channels[1]))>>)
        ELSE image
      osz == GetSize(final_image)
      ospc == GetSpacing(final_image)
      spacing_of(a) == RoundDiv((osz[a] - 1) * ospc[a], size[a] - 1)
      nspc == Max(spacing_of(1), spacing_of(2))
      new_spacing == <<nspc, nspc>>
      center == ContinuousIndexToPhysicalPoint(final_image.channels[1],
                   <<(osz[1] * Scale) \div 2, (osz[2] * Scale) \div 2>>)
      new_origin == <<center[1] - RoundDiv(size[1] * nspc, 2),
                      center[2] - RoundDiv(size[2] * nspc, 2)>>
      output == [size |-> size, origin |-> new_origin, spacing |-> new_spacing,
                 direction |-> IdentityMatrix]
  IN  IF size[1] = 1 \/ size[2] = 1 THEN ZeroDivisionError
      ELSE LoadedImage(final_image.pixelID,
             [c \in 1..Len(final_image.channels) |->
                Resample(final_image.channels[c], output, IdentityTransform,
                         "sitkLinear", outside_pixel_value)])

\* images of several sizes, spacings, pixel types and intensity ranges
ThumbPixelA(i, j) == 20 + 5 * i + j
ThumbPixelB(i, j) == 1000 * i + 500 * j
ThumbPixelC(i, j) == 300 * i * j - 1000
ThumbPixelD(i, j) == 300 + 200 * i + 100 * j
ThumbImages ==
  {LoadedImage("sitkUInt8",
     <<Image(<<4, 2>>, Zero2, <<Scale, Scale>>, IdentityMatrix,
             [index \in Indices(<<4, 2>>) |-> ThumbPixelA(index[1], index[2])])>>),
   LoadedImage("sitkUInt16",
     <<Image(<<3, 3>>, <<-Scale, 500>>, <<Scale, 2 * Scale>>, IdentityMatrix,
             [index \in Indices(<<3, 3>>) |-> ThumbPixelB(index[1], index[2])])>>),
   LoadedImage("sitkInt16",
     <<Image(<<2, 4>>, Zero2, <<2 * Scale, Scale>>, IdentityMatrix,
             [index \in Indices(<<2, 4>>) |-> ThumbPixelC(index[1], index[2])])>>),
   LoadedImage("sitkVectorUInt8",
     <<Image(<<2, 2>>, Zero2, <<Scale, Scale>>, IdentityMatrix,
             [index \in Indices(<<2, 2>>) |-> ThumbPixelA(index[1], index[2])]),
       Image(<<2, 2>>, Zero2, <<Scale, Scale>>, IdentityMatrix,
             [index \in Indices(<<2, 2>>) |-> MRPixel(index[1], index[2])])>>),
   LoadedImage("sitkVectorUInt16",
     <<Image(<<3, 2>>, Zero2, <<Scale, Scale>>, IdentityMatrix,
             [index \in Indices(<<3, 2>>) |-> ThumbPixelD(index[1], index[2])]),
       Image(<<3, 2>>, Zero2, <<Scale, Scale>>, IdentityMatrix,
             [index \in Indices(<<3, 2>>) |-> ThumbPixelA(index[1], index[2])])>>)}

\* new_size = [128, 128] in the notebook; the sizes asked of the small images
NewSizes == {<<2, 2>>, <<4, 4>>, <<3, 5>>, <<6, 2>>, <<1, 3>>}

\* outside_pixel_value of the cell's call
thumbnail_outside_pixel_value == 50

\* at most MaxImages images in the images list
MaxImages == 2

InitThumbnails ==
  /\ ResamplingIdle
  /\ RegistrationIdle
  /\ PythonicIdle
  /\ CallsIdle
  /\ WorkersIdle
  /\ LoaderIdle
  /\ \E n \in 1..MaxImages : images \in [1..n -> ThumbImages]
  /\ new_size \in NewSizes
  /\ resized_images = <<>>

\* resized_images = [resize_and_scale_uint8(image, new_size, 50) for image in images]
ResizeCell ==
  /\ resized_images = <<>>
  /\ images # <<>>
  /\ LET results == [k \in 1..Len(images) |->
                       resize_and_scale_uint8(images[k], new_size,
                                              thumbnail_outside_pixel_value)]
     IN  resized_images' =
           IF \E k \in 1..Len(images) : results[k] = ZeroDivisionError
           THEN ZeroDivisionError
           ELSE results
  /\ UNCHANGED <<images, new_size>>
  /\ UNCHANGED outside_thumbnails

NextThumbnails == ResizeCell

SpecThumbnails == InitThumbnails /\ [][NextThumbnails]_vars

\* ================================================= the Pythonic image notebook

\* an image of the Pythonic notebook: any dimension, indexed by tuples
Array(size, pixels, pixelID) == [size |-> size, pixels |-> pixels, pixelID |-> pixelID]

\* the index tuples of an image of dimension 2 or 3
ArrayIndices(size) ==
  IF Len(size) = 2
  THEN (0..(size[1] - 1)) \X (0..(size[2] - 1))
  ELSE (0..(size[1] - 1)) \X (0..(size[2] - 1)) \X (0..(size[3] - 1))

\* --- subscripts: d[i], d[i:j], d[i:j:k]; an omitted part is <<>>
Omitted == <<>>
SliceObject(start, stop, step) ==
  [kind |-> "slice", start |-> start, stop |-> stop, step |-> step]
IntegerIndex(i) == [kind |-> "int", start |-> <<i>>, stop |-> Omitted, step |-> Omitted]

Min(a, b) == IF a < b THEN a ELSE b

\* the step of a slice; an omitted step is 1
SliceStep(sl) == IF sl.step = Omitted THEN 1 ELSE sl.step[1]

\* a given bound: a negative one counts from the end, then it is clipped
SliceBound_from_past_end(v, n, lower, upper) ==
  IF v < 0 THEN Max(v + n + 1, lower) ELSE Min(v, upper)

SliceBound(v, n, lower, upper) ==
  IF v < 0 THEN Max(v + n, lower) ELSE Min(v, upper)

\* slice.indices(n): first index of the slice along an axis of length n
SliceStart(sl, n) ==
  LET step == SliceStep(sl)
      lower == IF step < 0 THEN 0 - 1 ELSE 0
      upper == IF step < 0 THEN n - 1 ELSE n
  IN  IF sl.start = Omitted
      THEN (IF step < 0 THEN upper ELSE lower)
      ELSE SliceBound(sl.start[1], n, lower, upper)

\* slice.indices(n): the index the slice stops before
SliceStop(sl, n) ==
  LET step == SliceStep(sl)
      lower == IF step < 0 THEN 0 - 1 ELSE 0
      upper == IF step < 0 THEN n - 1 ELSE n
  IN  IF sl.stop = Omitted
      THEN (IF step < 0 THEN lower ELSE upper)
      ELSE SliceBound(sl.stop[1], n, lower, upper)

\* number of indices the slice selects along an axis of length n
SliceLength(sl, n) ==
  LET step == SliceStep(sl)
      first == SliceStart(sl, n)
      last == SliceStop(sl, n)
  IN  IF step > 0
      THEN (IF first < last THEN (last - first - 1) \div step + 1 ELSE 0)
      ELSE (IF last < first THEN (first - last - 1) \div (0 - step) + 1 ELSE 0)

\* d[i] with an integer: a negative i counts from the end
ResolveIndex(sub, n) == IF sub.start[1] < 0 THEN sub.start[1] + n ELSE sub.start[1]

\* the axes a key keeps: those subscripted by a slice
KeptAxes(key) == SelectSeq([a \in 1..Len(key) |-> a], LAMBDA a : key[a].kind = "slice")

\* position of axis a among the kept axes
KeptPosition(key, a) == Cardinality({b \in 1..a : key[b].kind = "slice"})

\* size of img[key]
GetItemSize(image, key) ==
  LET kept == KeptAxes(key)
  IN  [m \in 1..Len(kept) |-> SliceLength(key[kept[m]], image.size[kept[m]])]

\* the index of img the index idx of img[key] is taken from
SourceIndex(image, key, idx) ==
  [a \in 1..Len(key) |->
     IF key[a].kind = "int"
     THEN ResolveIndex(key[a], image.size[a])
     ELSE SliceStart(key[a], image.size[a])
          + idx[KeptPosition(key, a)] * SliceStep(key[a])]

\* img[key]: one subscript per axis
GetItem(image, key) ==
  LET size == GetItemSize(image, key)
  IN  Array(size,
            [idx \in ArrayIndices(size) |-> image.pixels[SourceIndex(image, key, idx)]],
            image.pixelID)

\* a key is usable when it has one subscript per axis, every integer is inside
\* the axis, no slice is empty and two or three axes remain
ValidKey(image, key) ==
  /\ Len(key) = Len(image.size)
  /\ \A a \in 1..Len(key) :
       IF key[a].kind = "int"
       THEN ResolveIndex(key[a], image.size[a]) \in 0..(image.size[a] - 1)
       ELSE SliceLength(key[a], image.size[a]) > 0
  /\ Len(KeptAxes(key)) \in {2, 3}

\* --- comparison and arithmetic operators
ComparisonOperators == {">", ">=", "<", "<=", "=="}

Holds(op, value, threshold) ==
  CASE op = ">" -> value > threshold
    [] op = ">=" -> value >= threshold
    [] op = "<" -> value < threshold
    [] op = "<=" -> value <= threshold
    [] op = "==" -> value = threshold

\* img op threshold: a sitkUInt8 image
Compare_binary_255(image, op, threshold) ==
  Array(image.size,
        [idx \in ArrayIndices(image.size) |->
           IF Holds(op, image.pixels[idx], threshold) THEN 255 ELSE 0],
        "sitkUInt8")

Compare(image, op, threshold) ==
  Array(image.size,
        [idx \in ArrayIndices(image.size) |->
           IF Holds(op, image.pixels[idx], threshold) THEN 1 ELSE 0],
        "sitkUInt8")

\* a + b on two images of pixel type sitkUInt8: the raw 8-bit addition
Add(a, b) ==
  Array(a.size,
        [idx \in ArrayIndices(a.size) |-> (a.pixels[idx] + b.pixels[idx]) % (2 ^ 8)],
        a.pixelID)

\* --- inputs
\* img = sitk.GaussianSource(size=[64]*2), at a small size
GaussianSource == Array(<<5, 4>>, [idx \in ArrayIndices(<<5, 4>>) |-> idx[1] + 10 * idx[2]],
                        "sitkFloat32")
\* img = sitk.GaborSource(size=[64]*3, frequency=0.05), at a small size
GaborSource == Array(<<3, 4, 2>>,
                     [idx \in ArrayIndices(<<3, 4, 2>>) |->
                        idx[1] + 10 * idx[2] + 100 * idx[3]],
                     "sitkFloat32")
\* img = sitk.ReadImage(fdata("cthead1.png")), at a small size
CTHeadPixels == <<0, 90, 91, 150, 151, 255>>
cthead1 == Array(<<3, 2>>, [idx \in ArrayIndices(<<3, 2>>) |->
                              CTHeadPixels[1 + idx[1] + 3 * idx[2]]],
                 "sitkUInt8")
cthead1_bright == Array(<<2, 2>>, [idx \in ArrayIndices(<<2, 2>>) |->
                                     CTHeadPixels[3 + idx[1] + 2 * idx[2]]],
                        "sitkUInt8")
PythonicImages == {GaussianSource, GaborSource, cthead1, cthead1_bright}

\* the subscripts of the cells, scaled to the small sizes
Whole == SliceObject(Omitted, Omitted, Omitted)
Flipped == SliceObject(Omitted, Omitted, <<0 - 1>>)
Subscripts ==
  {Whole,                                        \* :
   SliceObject(<<1>>, <<3>>, Omitted),           \* 16:48
   SliceObject(<<1>>, <<0 - 1>>, Omitted),       \* 16:-16
   SliceObject(Omitted, <<2>>, Omitted),         \* :32
   Flipped,                                      \* ::-1
   SliceObject(Omitted, Omitted, <<3>>),         \* ::3
   SliceObject(<<0 - 2>>, <<0>>, <<0 - 2>>)}     \* a negative step with bounds
IntegerIndices == {IntegerIndex(1), IntegerIndex(0 - 1)}
SubscriptsOrIndices == Subscripts \cup IntegerIndices
FlipSubscripts == {Whole, Flipped}
Thresholds == {<<90, 150>>, <<0, 254>>, <<150, 150>>}

MaxKeys == 2

\* the keys of the first subscription of img
FirstKeys(image) ==
  {key \in [1..Len(image.size) -> SubscriptsOrIndices] : ValidKey(image, key)}
\* the keys of a later subscription: every axis whole or flipped
FlipKeys(image) == [1..Len(image.size) -> FlipSubscripts]

InitPythonic ==
  /\ ResamplingIdle
  /\ RegistrationIdle
  /\ ThumbnailsIdle
  /\ CallsIdle
  /\ WorkersIdle
  /\ LoaderIdle
  /\ pythonic_img \in PythonicImages
  /\ keys = <<>>
  /\ comparison = <<>>
  /\ pythonic_shown = NoArray

\* myshow(img[...]): the first subscription of img
SliceCell ==
  /\ keys = <<>>
  /\ comparison = <<>>
  /\ \E key \in FirstKeys(pythonic_img) :
       /\ keys' = <<key>>
       /\ pythonic_shown' = GetItem(pythonic_img, key)
  /\ UNCHANGED <<pythonic_img, comparison>>
  /\ UNCHANGED outside_pythonic

\* img_corner[::-1, :] and the like: a flip of the image sliced before
FlipCell ==
  /\ keys # <<>>
  /\ Len(keys) < MaxKeys
  /\ \E key \in FlipKeys(pythonic_shown) :
       /\ keys' = Append(keys, key)
       /\ pythonic_shown' = GetItem(pythonic_shown, key)
  /\ UNCHANGED <<pythonic_img, comparison>>
  /\ UNCHANGED outside_pythonic

\* myshow(img > 90) and the other comparison operators
CompareCell ==
  /\ keys = <<>>
  /\ comparison = <<>>
  /\ pythonic_img.pixelID = "sitkUInt8"
  /\ \E op \in ComparisonOperators, t \in Thresholds :
       /\ comparison' = <<<<op, t[1]>>>>
       /\ pythonic_shown' = Compare(pythonic_img, op, t[1])
  /\ UNCHANGED <<pythonic_img, keys>>
  /\ UNCHANGED outside_pythonic

\* myshow((img > 90) + (img > 150))
CompareSumCell ==
  /\ keys = <<>>
  /\ comparison = <<>>
  /\ pythonic_img.pixelID = "sitkUInt8"
  /\ \E t \in Thresholds :
       /\ comparison' = <<<<">", t[1]>>, <<">", t[2]>>>>
       /\ pythonic_shown' = Add(Compare(pythonic_img, ">", t[1]),
                                Compare(pythonic_img, ">", t[2]))
  /\ UNCHANGED <<pythonic_img, keys>>
  /\ UNCHANGED outside_pythonic

NextPythonic == SliceCell \/ FlipCell \/ CompareCell \/ CompareSumCell

SpecPythonic == InitPythonic /\ [][NextPythonic]_vars

\* ============================================== GetInverse of a composite

\* the transforms a composite is built from: the objects of the notebook and
\* a displacement field transform
CompositeParts == {identity, translation, affine, euler2d, DisplacementFieldTransform}

InitComposite ==
  /\ pc = "composite"
  /\ grid = NoImage
  /\ logo = NoImage
  /\ translate = Zero2
  /\ rotate \in Rotates
  /\ identity = IdentityTransform
  /\ translation = TranslationTransform(<<3100, 4400>>)
  /\ affine \in {affine_translate(NewAffine, 3100, 4400), affine_rotate(NewAffine, rotate)}
  /\ composite = CompositeTransform(<<>>)
  /\ euler2d = Euler2DTransform(rotate, Zero2, <<3100, 4400>>)
  /\ request = NoRequest
  /\ resampled = NoImage
  /\ title = ""
  /\ single = [image |-> NoImage, request |-> NoRequest]
  /\ RegistrationIdle
  /\ ThumbnailsIdle
  /\ PythonicIdle
  /\ CallsIdle
  /\ WorkersIdle
  /\ LoaderIdle

\* composite.AddTransform(t)
AddPartCall ==
  /\ pc = "composite"
  /\ Len(composite.subs) < MaxSubs
  /\ \E t \in CompositeParts : composite' = AddTransform(composite, t)
  /\ UNCHANGED <<pc, grid, logo, translate, rotate, identity, translation,
                 affine, euler2d, request, resampled, title, single>>
  /\ UNCHANGED outside_resampling

\* composite.GetInverse()
GetInverseCall ==
  /\ pc = "composite"
  /\ composite_inverse' = GetInverse(composite)
  /\ pc' = "inverted"
  /\ UNCHANGED <<grid, logo, translate, rotate, identity, translation, affine,
                 composite, euler2d, request, resampled, title, single>>
  /\ UNCHANGED <<registration_vars, thumbnail_vars, pythonic_vars, last_set, worker_vars,
                 loader_vars>>

NextComposite == AddPartCall \/ GetInverseCall

SpecComposite == InitComposite /\ [][NextComposite]_vars

\* ======================================== Resample on a grid without pixels

\* logos whose extent along one axis is below the spacing of the other axis
ThinLogos ==
  {Image(<<2, 1>>, Zero2, <<3 * Scale, Scale>>, IdentityMatrix,
         [index \in Indices(<<2, 1>>) |-> LogoPixelA(index[1], index[2])]),
   Image(<<1, 3>>, Zero2, <<Scale, 4 * Scale>>, IdentityMatrix,
         [index \in Indices(<<1, 3>>) |-> LogoPixelA(index[1], index[2])])}

\* values of an output_size entry
SizeEntries == {0 - 1, 0, 1, 2}

InitGrid ==
  /\ pc = "display"
  /\ grid = NoImage
  /\ logo \in Logos \cup ThinLogos
  /\ translate = Zero2
  /\ rotate = 0
  /\ identity = IdentityTransform
  /\ translation = IdentityTransform
  /\ affine = IdentityTransform
  /\ composite = IdentityTransform
  /\ euler2d = Euler2DTransform(0, Zero2, Zero2)
  /\ request = NoRequest
  /\ resampled = NoImage
  /\ title = ""
  /\ single = [image |-> NoImage, request |-> NoRequest]
  /\ RegistrationIdle
  /\ ThumbnailsIdle
  /\ PythonicIdle
  /\ CallsIdle
  /\ WorkersIdle
  /\ LoaderIdle

\* sitk.Resample(logo, output_size, euler2d, interpolator, output_origin,
\* output_spacing, output_direction) with an output_size given by the caller
ResampleSizeCall ==
  /\ pc = "display"
  /\ \E size \in SizeEntries \X SizeEntries, interpolator \in Interpolators :
       request' = [interpolator |-> interpolator, image |-> logo,
                   grid |-> [size |-> size, origin |-> logo.origin,
                             spacing |-> logo.spacing, direction |-> IdentityMatrix],
                   transform |-> euler2d, defaultValue |-> 0]
  /\ resampled' = Execute(request')
  /\ title' = ""
  /\ pc' = "end"
  /\ UNCHANGED <<grid, logo, translate, rotate, identity, translation,
                 affine, composite, euler2d, single>>
  /\ UNCHANGED outside_resampling

NextGrid == GridDerivationCell \/ ResampleSizeCall

SpecGrid == InitGrid /\ [][NextGrid]_vars

\* ===================================================== parameter accessors

\* transform.GetDimension(): the length of the points the transform maps
GetDimension(t) == Len(t.translation)

\* transform.GetFixedParameters(): the centre of an affine or rigid transform
GetFixedParameters(t) ==
  IF t.kind \in {"Affine", "Euler2D"} THEN t.center ELSE <<>>

\* transform.GetParameters()
GetParameters(t) ==
  CASE t.kind = "Translation" -> t.translation
    [] t.kind = "Affine" -> t.matrix \o t.translation
    [] t.kind = "Euler2D" -> <<t.angle>> \o t.translation
    [] OTHER -> <<>>

\* transform.SetParameters(parameters)
SetParameters(t, parameters) ==
  CASE t.kind = "Translation" -> [t EXCEPT !.translation = parameters]
    [] t.kind = "Affine" ->
         [t EXCEPT !.matrix = SubSeq(parameters, 1, 4),
                   !.translation = SubSeq(parameters, 5, 6)]
    [] t.kind = "Euler2D" ->
         [t EXCEPT !.matrix = RotationMatrix(parameters[1]),
                   !.angle = parameters[1],
                   !.translation = SubSeq(parameters, 2, 3)]
    [] OTHER -> t

\* translation.SetOffset(offset)
SetOffset(t, offset) == [t EXCEPT !.translation = offset]

\* a SetTranslation that also moves the centre back to the origin
SetTranslation_centre_reset(t, trans) ==
  [t EXCEPT !.center = Zero2, !.translation = trans]

\* transform.SetTranslation(translation) of an affine or rigid transform
SetTranslation(t, trans) == [t EXCEPT !.translation = trans]

\* arguments of the setters
OffsetArguments == {<<3100, 4400>>, <<3100, 4600>>, <<0 - 3100, 0 - 4600>>}
AffineArguments ==
  {IdentityMatrix \o <<3100, 4400>>, RotationMatrix(20) \o <<0, 0>>}
Euler2DArguments == {<<20, 3100, 4400>>, <<0, 0, 0>>, <<90, 0 - 3100, 0>>}

\* translation = sitk.TranslationTransform(dimension),
\* affine = sitk.AffineTransform(dimension), euler2d = sitk.Euler2DTransform()
\* with its centre set to the centre of the logo
InitParameters ==
  /\ pc = "parameters"
  /\ grid = NoImage
  /\ logo \in Logos
  /\ translate = Zero2
  /\ rotate = 0
  /\ identity = IdentityTransform
  /\ translation = TranslationTransform(Zero2)
  /\ affine = NewAffine
  /\ composite = IdentityTransform
  /\ euler2d = Euler2DTransform(0, logo_center(logo), Zero2)
  /\ request = NoRequest
  /\ resampled = NoImage
  /\ title = ""
  /\ single = [image |-> NoImage, request |-> NoRequest]
  /\ RegistrationIdle
  /\ ThumbnailsIdle
  /\ PythonicIdle
  /\ CallsIdle
  /\ WorkersIdle
  /\ LoaderIdle

\* translation.SetParameters((3.1, 4.4))
TranslationSetParameters ==
  /\ pc = "parameters"
  /\ \E v \in OffsetArguments :
       /\ translation' = SetParameters(translation, v)
       /\ last_set' = [setter |-> "translation.SetParameters", argument |-> v]
  /\ UNCHANGED <<pc, grid, logo, translate, rotate, identity, affine, composite,
                 euler2d, request, resampled, title, single>>
  /\ UNCHANGED <<registration_vars, thumbnail_vars, pythonic_vars, composite_inverse,
               worker_vars, loader_vars>>

\* translation.SetOffset((3.1, 4.6))
TranslationSetOffset ==
  /\ pc = "parameters"
  /\ \E v \in OffsetArguments :
       /\ translation' = SetOffset(translation, v)
       /\ last_set' = [setter |-> "translation.SetOffset", argument |-> v]
  /\ UNCHANGED <<pc, grid, logo, translate, rotate, identity, affine, composite,
                 euler2d, request, resampled, title, single>>
  /\ UNCHANGED <<registration_vars, thumbnail_vars, pythonic_vars, composite_inverse,
               worker_vars, loader_vars>>

\* affine.SetTranslation((3.1, 4.4))
AffineSetTranslation ==
  /\ pc = "parameters"
  /\ \E v \in OffsetArguments :
       /\ affine' = SetTranslation(affine, v)
       /\ last_set' = [setter |-> "affine.SetTranslation", argument |-> v]
  /\ UNCHANGED <<pc, grid, logo, translate, rotate, identity, translation,
                 composite, euler2d, request, resampled, title, single>>
  /\ UNCHANGED <<registration_vars, thumbnail_vars, pythonic_vars, composite_inverse,
               worker_vars, loader_vars>>

\* affine.SetParameters(parameters)
AffineSetParameters ==
  /\ pc = "parameters"
  /\ \E v \in AffineArguments :
       /\ affine' = SetParameters(affine, v)
       /\ last_set' = [setter |-> "affine.SetParameters", argument |-> v]
  /\ UNCHANGED <<pc, grid, logo, translate, rotate, identity, translation,
                 composite, euler2d, request, resampled, title, single>>
  /\ UNCHANGED <<registration_vars, thumbnail_vars, pythonic_vars, composite_inverse,
               worker_vars, loader_vars>>

\* euler2d.SetTranslation((tx, ty))
Euler2DSetTranslation ==
  /\ pc = "parameters"
  /\ \E v \in OffsetArguments :
       /\ euler2d' = SetTranslation(euler2d, v)
       /\ last_set' = [setter |-> "euler2d.SetTranslation", argument |-> v]
  /\ UNCHANGED <<pc, grid, logo, translate, rotate, identity, translation,
                 affine, composite, request, resampled, title, single>>
  /\ UNCHANGED <<registration_vars, thumbnail_vars, pythonic_vars, composite_inverse,
               worker_vars, loader_vars>>

\* euler2d.SetParameters(parameters), as the optimizer of a registration does
Euler2DSetParameters ==
  /\ pc = "parameters"
  /\ \E v \in Euler2DArguments :
       /\ euler2d' = SetParameters(euler2d, v)
       /\ last_set' = [setter |-> "euler2d.SetParameters", argument |-> v]
  /\ UNCHANGED <<pc, grid, logo, translate, rotate, identity, translation,
                 affine, composite, request, resampled, title, single>>
  /\ UNCHANGED <<registration_vars, thumbnail_vars, pythonic_vars, composite_inverse,
               worker_vars, loader_vars>>

NextParameters ==
  \/ TranslationSetParameters
  \/ TranslationSetOffset
  \/ AffineSetTranslation
  \/ AffineSetParameters
  \/ Euler2DSetTranslation
  \/ Euler2DSetParameters

SpecParameters == InitParameters /\ [][NextParameters]_vars

\* ================================================ Resample, pixel by pixel

MaxWorkers == 2
Workers == 1..MaxWorkers

\* an output pixel no worker has written yet
Unwritten == 0 - 1

\* the contract Resample checks before it samples: the dimensions of the
\* transform and of the output grid against the source, then the Size
ResampleError(req) ==
  IF GetDimension(req.transform) # Len(req.image.size)
  THEN "DimensionMismatchError"
  ELSE IF Len(req.grid.size) # Len(req.image.size)
       THEN "PixelTypeMismatchError"
       ELSE IF InvalidGrid(req.grid) THEN "InvalidGridError" ELSE ""

\* a failure that hands back an image filled with the default value
Failure_default_filled(req, error) ==
  [image |-> Image(req.grid.size, req.image.origin, req.image.spacing,
                   req.image.direction,
                   [index \in Indices(req.grid.size) |-> req.defaultValue]),
   error |-> error]

\* what a failing call returns: the error and no image
Failure(req, error) == [image |-> InvalidGridError, error |-> error]

\* position of an output index in the linear index range
LinearIndex(size, index) == index[1] + index[2] * size[1]

\* ways to split the index range: contiguous chunks, or every MaxWorkers-th
Schemes == {"chunks", "strided"}

ChunkLength(size) == (size[1] * size[2] + MaxWorkers - 1) \div MaxWorkers

\* a split whose chunks share their boundary index
Partition_shared_boundary(scheme, size, w) ==
  IF scheme = "chunks"
  THEN {index \in Indices(size) :
          /\ LinearIndex(size, index) >= (w - 1) * ChunkLength(size)
          /\ LinearIndex(size, index) <= w * ChunkLength(size)}
  ELSE {index \in Indices(size) : LinearIndex(size, index) % MaxWorkers = w - 1}

\* the output indices of worker w
Partition(scheme, size, w) ==
  IF scheme = "chunks"
  THEN {index \in Indices(size) :
          /\ LinearIndex(size, index) >= (w - 1) * ChunkLength(size)
          /\ LinearIndex(size, index) < w * ChunkLength(size)}
  ELSE {index \in Indices(size) : LinearIndex(size, index) % MaxWorkers = w - 1}

\* transforms and grids of the calls, with ones of the wrong dimension
WorkerTransforms ==
  {TranslationTransform(<<Scale, 0>>),
   Euler2DTransform(20, <<Scale, Scale>>, Zero2),
   TranslationTransform(<<Scale, 0, 0>>)}
WorkerGrids(image) ==
  {GridOf(image),
   [size |-> <<0, 2>>, origin |-> image.origin, spacing |-> image.spacing,
    direction |-> image.direction],
   [size |-> <<2, 2, 1>>, origin |-> image.origin, spacing |-> image.spacing,
    direction |-> image.direction]}

InitWorkers ==
  /\ ResamplingIdle
  /\ RegistrationIdle
  /\ ThumbnailsIdle
  /\ PythonicIdle
  /\ CallsIdle
  /\ LoaderIdle
  /\ \E image \in Logos, g \in UNION {WorkerGrids(l) : l \in Logos},
        t \in WorkerTransforms, interpolator \in Interpolators :
       /\ g \in WorkerGrids(image)
       /\ job = [interpolator |-> interpolator, image |-> image, grid |-> g,
                 transform |-> t, defaultValue |-> resample_default_value]
  /\ called_with = NoRequest
  /\ phase = "idle"
  /\ todo = <<>>
  /\ buffer = <<>>
  /\ written = <<>>
  /\ outcome = [image |-> NoImage, error |-> ""]

\* the call checks its arguments, then allocates the output buffer and splits
\* the output index range over the workers
ResampleBegin ==
  /\ phase = "idle"
  /\ called_with' = job
  /\ IF ResampleError(job) # ""
     THEN /\ phase' = "failed"
          /\ outcome' = Failure(job, ResampleError(job))
          /\ UNCHANGED <<todo, buffer, written>>
     ELSE /\ phase' = "running"
          /\ \E scheme \in Schemes :
               todo' = [w \in Workers |-> Partition(scheme, job.grid.size, w)]
          /\ buffer' = [index \in Indices(job.grid.size) |-> Unwritten]
          /\ written' = [index \in Indices(job.grid.size) |-> <<>>]
          /\ UNCHANGED outcome
  /\ UNCHANGED job
  /\ UNCHANGED <<resampling_vars, registration_vars, thumbnail_vars, pythonic_vars,
                 call_vars, loader_vars>>

\* worker w samples the source for one of its output indices and writes it
WorkerWrite(w) ==
  /\ phase = "running"
  /\ \E index \in todo[w] :
       /\ buffer' = [buffer EXCEPT ![index] =
                       ResamplePixel(job.image, job.grid, job.transform,
                                     job.interpolator, job.defaultValue, index)]
       /\ written' = [written EXCEPT ![index] = Append(@, w)]
       /\ todo' = [todo EXCEPT ![w] = @ \ {index}]
  /\ UNCHANGED <<job, called_with, phase, outcome>>
  /\ UNCHANGED <<resampling_vars, registration_vars, thumbnail_vars, pythonic_vars,
                 call_vars, loader_vars>>

\* every worker is done: the buffer is returned as the output image
ResampleEnd ==
  /\ phase = "running"
  /\ \A w \in Workers : todo[w] = {}
  /\ phase' = "finished"
  /\ outcome' = [image |-> Image(job.grid.size, job.grid.origin, job.grid.spacing,
                                 job.grid.direction, buffer),
                 error |-> ""]
  /\ UNCHANGED <<job, called_with, todo, buffer, written>>
  /\ UNCHANGED <<resampling_vars, registration_vars, thumbnail_vars, pythonic_vars,
                 call_vars, loader_vars>>

NextWorkers == ResampleBegin \/ (\E w \in Workers : WorkerWrite(w)) \/ ResampleEnd

SpecWorkers == InitWorkers /\ [][NextWorkers]_vars

\* ================================================== the image loading loop

MaxFiles == 3

\* files on disk: a single slice stored as 3D, a 2D image, two volumes, and
\* two files of more dimensions
FileNames == {"cxr.dcm", "photo.dcm", "POPI/meta/00-P.mhd", "training_001_ct.mha",
              "4D.nrrd", "5D.nrrd"}

\* image_file_reader.GetSize() after ReadImageInformation()
FileSize(fname) ==
  CASE fname = "cxr.dcm" -> <<4, 3, 1>>
    [] fname = "photo.dcm" -> <<5, 4>>
    [] fname = "POPI/meta/00-P.mhd" -> <<4, 6, 2>>
    [] fname = "training_001_ct.mha" -> <<3, 2, 5>>
    [] fname = "4D.nrrd" -> <<2, 2, 2, 3>>
    [] fname = "5D.nrrd" -> <<2, 2, 2, 2, 2>>

\* the names bound in the notebook when the loading cell runs
NotebookNames ==
  {"sitk", "np", "gui", "plt", "interact", "fixed", "fdata", "dimension", "point",
   "identity", "translation", "affine", "composite", "euler2d", "grid", "logo",
   "file_names", "images", "image_file_reader", "fname", "image_size"}

\* raise ValueError(f"{image.GetDimension()}D image not supported."): the
\* message is built from the name image before the ValueError is
RaiseNotSupported(names) ==
  IF "image" \in names
  THEN <<"ValueError", "image.GetDimension()">>
  ELSE <<"NameError", "image">>

\* image_file_reader.Execute(): the image is read from the file of the reader
\* with the extract size and the extract index the reader holds
ReaderExecute(reader) == reader

InitLoader ==
  /\ ResamplingIdle
  /\ RegistrationIdle
  /\ ThumbnailsIdle
  /\ PythonicIdle
  /\ CallsIdle
  /\ WorkersIdle
  /\ \E n \in 1..MaxFiles : file_names \in [1..n -> FileNames]
  /\ iteration = 0
  /\ image_file_reader = NewReader
  /\ raised = <<>>

\* one iteration of: for fname in file_names
LoadFile ==
  /\ raised = <<>>
  /\ iteration < Len(file_names)
  /\ iteration' = iteration + 1
  /\ LET fname == file_names[iteration + 1]
         image_size == FileSize(fname)
         named == [image_file_reader EXCEPT !.fileName = fname]
     IN  IF Len(image_size) = 3 /\ image_size[3] = 1
         THEN /\ image_file_reader' =
                   [named EXCEPT !.extractSize = <<image_size[1], image_size[2], 0>>]
              /\ images' = Append(images, ReaderExecute(image_file_reader'))
              /\ UNCHANGED raised
         ELSE IF Len(image_size) = 2
         THEN /\ image_file_reader' = named
              /\ images' = Append(images, ReaderExecute(image_file_reader'))
              /\ UNCHANGED raised
         ELSE IF Len(image_size) = 3
         THEN /\ image_file_reader' =
                   [named EXCEPT !.extractSize = <<image_size[1], 0, image_size[3]>>,
                                 !.extractIndex = <<0, image_size[2] \div 2, 0>>]
              /\ images' = Append(images, ReaderExecute(image_file_reader'))
              /\ UNCHANGED raised
         ELSE /\ image_file_reader' = named
              /\ raised' = RaiseNotSupported(NotebookNames)
              /\ UNCHANGED images
  /\ UNCHANGED <<file_names, new_size, resized_images>>
  /\ UNCHANGED <<resampling_vars, registration_vars, pythonic_vars, call_vars,
                 worker_vars>>

NextLoader == LoadFile

SpecLoader == InitLoader /\ [][NextLoader]_vars

\* ================================================================== claims
TestCoords == {-10 * Scale, 0, 3100, 15 * Scale}
TestPoints == TestCoords \X TestCoords

\* t1(t2(...tn(p))) for the sub-transforms t1, ..., tn
RECURSIVE Nested(_, _)
Nested(subs, p) ==
  IF subs = <<>> THEN p
  ELSE TransformPointSimple(Head(subs), Nested(Tail(subs), p))

Compose(subs) == CompositeTransform(subs)

\* C1: a Composite holding t1, ..., tn in insertion order maps p to
\* t1(t2(...tn(p))): the last-added sub-transform is applied first.  The
\* composite of the reverse-order cell (affine added, then translation) maps
\* p to affine(translation(p)), and Translation(5,0) then Translation(0,5)
\* maps (0,0) to (5,5).
C1_ReverseInsertionOrder ==
  /\ \A p \in TestPoints : TransformPoint(composite, p) = Nested(composite.subs, p)
  /\ title = "Composite transform in reverse order" =>
       \A p \in TestPoints :
          TransformPoint(request.transform, p)
            = TransformPoint(affine, TransformPoint(translation, p))
  /\ TransformPoint(
       AddTransform(AddTransform(CompositeTransform(<<>>),
                                 TranslationTransform(<<5 * Scale, 0>>)),
                    TranslationTransform(<<0, 5 * Scale>>)),
       Zero2) = <<5 * Scale, 5 * Scale>>

\* the reverse-order cell has run and the order of application shows: applying
\* the two sub-transforms in insertion order would give another point
C1_Witness ==
  /\ title = "Composite transform in reverse order"
  /\ Len(composite.subs) = 2
  /\ \E p \in TestPoints :
        TransformPoint(composite, p)
          # TransformPoint(composite.subs[2], TransformPoint(composite.subs[1], p))

\* C2: composition is not commutative: once the cells have built the rotation
\* (rotate # 0) and the translation (translate # 0), the composite that adds
\* the rotation and then the translation and the composite that adds them in
\* the other order differ on at least one point.
C2_NonCommutative ==
  (pc \in {"reverse", "display", "done", "end"} /\ rotate # 0 /\ translate # Zero2)
    => \E p \in TestPoints :
          TransformPoint(AddTransform(AddTransform(CompositeTransform(<<>>), affine),
                                      translation), p)
            # TransformPoint(AddTransform(AddTransform(CompositeTransform(<<>>),
                                                       translation), affine), p)

\* the reverse-order cell has shown the composite of the rotation and the
\* non-zero translation, and reversing its sub-transforms changes a point
C2_Witness ==
  /\ title = "Composite transform in reverse order"
  /\ affine.matrix # IdentityMatrix
  /\ translation.translation # Zero2
  /\ \E p \in TestPoints :
        TransformPoint(composite, p) # TransformPoint(Compose(Reverse(composite.subs)), p)

\* the rotation and the translation held by the rigid transform euler2d
RotationOf(t) == Euler2DTransform(t.angle, t.center, Zero2)
TranslationOf(t) == TranslationTransform(t.translation)

\* C3 as stated: the rigid transform equals the composite of its translation
\* and its rotation in which the translation is evaluated first (added last)
\* and the rotation second.
C3_TranslationFirst ==
  \A p \in TestPoints :
     TransformPoint(euler2d, p)
       = TransformPoint(AddTransform(AddTransform(CompositeTransform(<<>>),
                                                  RotationOf(euler2d)),
                                     TranslationOf(euler2d)), p)

\* C3 amended: the rigid transform equals the composite of its translation
\* and its rotation in which the rotation (about the centre) is evaluated
\* first and the translation second: AddTransform(translation), then
\* AddTransform(rotation).
C3_RotationFirst ==
  \A p \in TestPoints :
     TransformPoint(euler2d, p)
       = TransformPoint(AddTransform(AddTransform(CompositeTransform(<<>>),
                                                  TranslationOf(euler2d)),
                                     RotationOf(euler2d)), p)

\* resample_display has set a rotation and a translation that do not commute
C3_Witness ==
  /\ pc = "display"
  /\ euler2d.angle # 0
  /\ euler2d.translation # Zero2
  /\ \E p \in TestPoints :
        TransformPoint(Compose(<<RotationOf(euler2d), TranslationOf(euler2d)>>), p)
          # TransformPoint(Compose(<<TranslationOf(euler2d), RotationOf(euler2d)>>), p)

\* C4: the composite that the "Two Transforms" cell resamples with is the
\* same mapping as the affine transform of the "Single Transform" cell, and
\* the two resampled images are equal.
C4_TwoTransformsSameAsSingle ==
  title = "Two Transforms" =>
    /\ \A p \in TestPoints :
          TransformPoint(request.transform, p)
            = TransformPoint(single.request.transform, p)
    /\ resampled = single.image

\* largest coordinate difference of two points
Distance(u, v) ==
  IF Abs(u[1] - v[1]) > Abs(u[2] - v[2]) THEN Abs(u[1] - v[1]) ELSE Abs(u[2] - v[2])

\* rounding tolerance of the fixed-point arithmetic: 0.1 physical units
Tolerance == Scale \div 10

\* the transforms a state holds: the objects of the notebook and the
\* transform of the latest Resample call
HeldTransforms == TransformObjects \cup {request.transform}

\* C5: for every transform T that has an inverse (Identity, Translation,
\* Affine with an invertible matrix, Rigid, Composite of these) and every
\* point p, T.GetInverse().TransformPoint(T.TransformPoint(p)) is p, up to
\* the rounding of the arithmetic.
C5_InverseRoundTrip ==
  \A t \in {o \in HeldTransforms : HasInverse(o)} : \A p \in TestPoints :
     Distance(TransformPoint(GetInverse(t), TransformPoint(t, p)), p) <= Tolerance

\* a rigid transform with a rotation and a translation, and a composite of two
\* sub-transforms, move a point and their inverses bring it back
C5_Witness ==
  /\ euler2d.angle # 0 /\ euler2d.translation # Zero2
  /\ Len(composite.subs) = 2
  /\ \E p \in TestPoints :
        /\ Distance(TransformPoint(euler2d, p), p) > Tolerance
        /\ Distance(TransformPoint(composite, p), p) > Tolerance
        /\ Distance(TransformPoint(GetInverse(euler2d), TransformPoint(euler2d, p)), p)
             <= Tolerance
        /\ Distance(TransformPoint(GetInverse(composite), TransformPoint(composite, p)), p)
             <= Tolerance

\* physical position of p relative to image img (identity direction):
\* outside its extent by more than a rounding unit, or on a pixel centre
OutsideExtent(img, p) ==
  \E a \in 1..2 :
     \/ 2 * (p[a] - img.origin[a]) < -img.spacing[a] - 2
     \/ 2 * (p[a] - img.origin[a]) > (2 * img.size[a] - 1) * img.spacing[a] + 2
CentreOf(img, k) == <<img.origin[1] + k[1] * img.spacing[1],
                      img.origin[2] + k[2] * img.spacing[2]>>
PixelValues(img) == {img.pixels[k] : k \in Indices(img.size)}
MinValue(img) == CHOOSE v \in PixelValues(img) : \A w \in PixelValues(img) : v <= w
MaxValue(img) == CHOOSE v \in PixelValues(img) : \A w \in PixelValues(img) : v >= w

\* the source point Resample has to sample for output index i
SourcePoint(req, i) ==
  TransformPoint(req.transform, CentreOf(req.grid, i))

ScenarioC7 ==
  /\ title = "Resampled Translation"
  /\ translation = TranslationTransform(<<3 * Scale, 4 * Scale>>)
  /\ request.image = Source64
  /\ request.grid = GridOf(Source64)
  /\ request.defaultValue = 100

\* C7 as stated: in the scenario the output pixel at index (0,0) is sampled
\* at the source point (-3,-4), outside the source, and equals 100.
C7_PixelZeroIsDefault ==
  ScenarioC7 =>
    /\ SourcePoint(request, <<0, 0>>) = <<-3 * Scale, -4 * Scale>>
    /\ resampled.pixels[<<0, 0>>] = 100

\* C7 amended: in the scenario the output pixel at index (0,0) is sampled at
\* the source point (+3,+4), inside the source, and equals the source pixel
\* at index (3,4); the pixels that equal the default 100 are those of index
\* (i,j) with i > 60 or j > 59, whose source point lies outside the source.
C7_PixelZeroIsSourcePixel ==
  ScenarioC7 =>
    /\ SourcePoint(request, <<0, 0>>) = <<3 * Scale, 4 * Scale>>
    /\ resampled.pixels[<<0, 0>>] = Source64.pixels[<<3, 4>>]
    /\ resampled.pixels[<<0, 0>>] # 100
    /\ \A i \in Indices(request.grid.size) :
          resampled.pixels[i] = 100 <=> (i[1] > 60 \/ i[2] > 59)

C7_Witness ==
  /\ ScenarioC7
  /\ resampled.pixels[<<0, 0>>] = SourcePixel(3, 4)
  /\ resampled.pixels[<<61, 0>>] = 100

\* a Resample call through the Identity transform onto the grid of the source
IdentityOnOwnGrid ==
  /\ resampled # NoImage
  /\ request.transform = identity
  /\ request.grid = GridOf(request.image)

\* C8: resampling an image through the Identity transform onto its own grid
\* returns the source pixel for pixel, for Nearest-Neighbor and for Linear
\* interpolation, and every output pixel is sampled inside the source (none
\* receives the default value).
C8_IdentityResample ==
  IdentityOnOwnGrid =>
    /\ resampled.size = request.image.size
    /\ resampled.pixels = request.image.pixels
    /\ \A i \in Indices(request.grid.size) :
          /\ SourcePoint(request, i) = CentreOf(request.image, i)
          /\ IsInsideBuffer(request.image,
                TransformPhysicalPointToContinuousIndex(request.image,
                                                        SourcePoint(request, i)))

\* the identity has been resampled with sitkLinear on an image whose pixels
\* are not all equal and none of which is the default value
C8_Witness ==
  /\ IdentityOnOwnGrid
  /\ request.interpolator = "sitkLinear"
  /\ Cardinality(PixelValues(request.image)) > 1
  /\ request.defaultValue \notin PixelValues(resampled)

\* C9 as stated: every pixel of the output of a Nearest-Neighbor Resample is
\* a value that occurs in the source image.
C9_OnlySourceValues ==
  (resampled # NoImage /\ request.interpolator = "sitkNearestNeighbor")
    => PixelValues(resampled) \subseteq PixelValues(request.image)

\* C9 amended: every pixel of the output of a Nearest-Neighbor Resample is a
\* value that occurs in the source image or the default fill value, and it is
\* a value of the source wherever the sampled point is inside the source.
C9_SourceValuesOrDefault ==
  (resampled # NoImage /\ request.interpolator = "sitkNearestNeighbor")
    => /\ PixelValues(resampled)
            \subseteq (PixelValues(request.image) \cup {request.defaultValue})
       /\ \A i \in Indices(request.grid.size) :
             resampled.pixels[i] \notin PixelValues(request.image) =>
                ~IsInsideBuffer(request.image,
                    TransformPhysicalPointToContinuousIndex(request.image,
                                                            SourcePoint(request, i)))

\* a Nearest-Neighbor Resample through a rotation has sampled between pixel
\* centres and outside the source
C9_Witness ==
  /\ resampled # NoImage
  /\ request.interpolator = "sitkNearestNeighbor"
  /\ request.transform.kind \in {"Affine", "Euler2D", "Composite"}
  /\ request.defaultValue \in PixelValues(resampled)
  /\ \E i \in Indices(request.grid.size) :
        /\ resampled.pixels[i] \in PixelValues(request.image)
        /\ \A k \in Indices(request.image.size) :
              SourcePoint(request, i) # CentreOf(request.image, k)

\* upper physical bound of a grid on axis a: origin + size * spacing
UpperBound(g, a) == g.origin[a] + g.size[a] * g.spacing[a]

\* p lies inside the bounds of grid g, up to one pixel
InsideGridBounds(g, p) ==
  \A a \in 1..2 : /\ p[a] >= g.origin[a]
                  /\ p[a] <= UpperBound(g, a) + g.spacing[a]

\* C10: the output grid that the grid cell derives from the corners of the
\* image mapped through transform.GetInverse() contains all of the image:
\* every inverse-mapped corner, and every inverse-mapped pixel centre, lies
\* inside the bounds of the output grid, up to one pixel.
C10_GridContainsImage ==
  pc = "done" =>
    LET inverse == GetInverse(request.transform)
    IN  /\ \A c \in extreme_points(request.image) :
              InsideGridBounds(request.grid, TransformPoint(inverse, c))
        /\ \A k \in Indices(request.image.size) :
              InsideGridBounds(request.grid,
                               TransformPoint(inverse, CentreOf(request.image, k)))

\* the grid cell has run with a rotation: the derived grid differs from the
\* grid of the image in origin and size
C10_Witness ==
  /\ pc = "done"
  /\ request.transform.angle # 0
  /\ request.grid.origin # request.image.origin
  /\ request.grid.size # request.image.size
  /\ \A c \in extreme_points(request.image) :
        InsideGridBounds(request.grid,
                         TransformPoint(GetInverse(request.transform), c))

\* the cells of the registration notebook after Version 1.1 has run
AfterVersion11 == rpc \in {"v11_save", "v2", "v2_save", "finished"}

\* C11: the output image of Resample has exactly the requested grid: the
\* reference image's Size, Origin, Spacing and Direction when one is given
\* (resample() with the image itself, save_transform_and_image with the fixed
\* image, the procedural call with its reference), and the source image's
\* when no grid is given (resample_display), whatever the transform is.
C11_OutputHasRequestedGrid ==
  /\ resampled # NoImage => GridOf(resampled) = request.grid
  /\ title # "" => GridOf(resampled) = GridOf(grid)
  /\ (pc = "display" /\ title = "") => GridOf(resampled) = GridOf(logo)
  /\ saved # NoFiles => GridOf(saved.mha) = GridOf(fixed_image)

\* save_transform_and_image has resampled the moving image onto the grid of
\* a fixed image of another geometry, through a transform that moves points
C11_Witness ==
  /\ saved.prefix = "finalAlignment-v1.1"
  /\ GridOf(fixed_image) # GridOf(moving_image)
  /\ GridOf(saved.mha) = GridOf(fixed_image)
  /\ \E p \in TestPoints : TransformPoint(saved.tfm, p) # p

\* C14: once an invocation of DICOM_series_dropdown_callback has completed,
\* selected_series_fixed and selected_series_moving are the fixed_image and
\* moving_image arguments of the most recent invocation, whether or not the
\* DICOM tags were present.
C14_GlobalsFollowLatestInvocation ==
  callback.pc = "idle" =>
    /\ selected_series_fixed = callback.fixed_image
    /\ selected_series_moving = callback.moving_image

\* an invocation after the widget's first one has completed with a tag
\* missing from both images, and has changed the fixed selection
C14_Witness ==
  /\ callback.pc = "idle"
  /\ selected_series_fixed = series_IDs[2]
  /\ selected_series_moving = series_IDs[1]
  /\ \E k \in 1..Len(callback.table) : callback.table[k] = <<"", "">>

\* C15: Execute of registration Version 1 (inPlace=False) and Version 1.1
\* (SetMovingInitialTransform) never modifies initial_transform: after the
\* runs it is still the transform CenteredTransformInitializer returned; only
\* the transform being optimized changes.
C15_InitialTransformUnchanged ==
  rpc \in {"v1_save", "v11", "v11_save", "v2"} =>
    initial_transform = CenteredTransformInitializer(fixed_image, moving_image)

\* both versions have run and their optimizers have moved away from the
\* starting parameters
C15_Witness ==
  /\ rpc = "v11_save"
  /\ final_transform_v1 # initial_transform
  /\ optimized_transform # Euler2DTransform(0, Zero2, Zero2)
  /\ initial_transform.translation # Zero2
  /\ initial_transform = CenteredTransformInitializer(fixed_image, moving_image)

\* C16: final_transform_v11, built as CompositeTransform(optimized_transform)
\* followed by AddTransform(initial_transform), maps every point p to
\* T_opt(T_m(p)): initial_transform is applied first, optimized_transform
\* second.
C16_FinalV11IsOptAfterInitial ==
  AfterVersion11 =>
    \A p \in TestPoints :
       TransformPoint(final_transform_v11, p)
         = TransformPoint(optimized_transform, TransformPoint(initial_transform, p))

\* the composite holds a rotation and a translation that do not commute
C16_Witness ==
  /\ AfterVersion11
  /\ final_transform_v11.subs = <<optimized_transform, initial_transform>>
  /\ \E p \in TestPoints :
        /\ TransformPoint(final_transform_v11, p)
             = TransformPoint(optimized_transform, TransformPoint(initial_transform, p))
        /\ TransformPoint(final_transform_v11, p)
             # TransformPoint(initial_transform, TransformPoint(optimized_transform, p))

\* the thumbnail cell has returned its list of images
Resized == resized_images # <<>> /\ resized_images # ZeroDivisionError

\* C12: for every input image (scalar of any pixel type, or multi-component)
\* and every new_size, resize_and_scale_uint8 returns an image whose size is
\* new_size and whose pixel type is sitkUInt8 with intensities in [0,255].
C12_SizeAndUInt8 ==
  resized_images # <<>> =>
    /\ resized_images # ZeroDivisionError
    /\ \A k \in 1..Len(images) :
          /\ GetPixelID(resized_images[k]) = "sitkUInt8"
          /\ \A c \in 1..Len(resized_images[k].channels) :
                /\ resized_images[k].channels[c].size = new_size
                /\ \A i \in Indices(new_size) :
                      resized_images[k].channels[c].pixels[i] \in 0..255

\* margins on axis a between the pixel grid of the original o and the pixel
\* grid of the resized image n: before the first pixel and after the last
MarginBefore(o, n, a) == o.origin[a] - n.origin[a]
MarginAfter(o, n, a) ==
  (n.origin[a] + (n.size[a] - 1) * n.spacing[a])
    - (o.origin[a] + (o.size[a] - 1) * o.spacing[a])

\* C13: resize_and_scale_uint8 keeps the aspect ratio and centres the
\* original in the new image: the new spacing is the same on every axis, the
\* maximum over the axes of (osz-1)*ospc/(nsz-1), and on every axis the
\* original pixel grid lies inside the new grid with equal margins before its
\* first pixel and after its last pixel (up to the rounding of the arithmetic).
C13_IsotropicAndCentred ==
  Resized =>
    \A k \in 1..Len(images) :
       LET o == images[k].channels[1]
           n == resized_images[k].channels[1]
       IN  /\ n.spacing[1] = n.spacing[2]
           /\ n.spacing[1] =
                Max(RoundDiv((o.size[1] - 1) * o.spacing[1], new_size[1] - 1),
                    RoundDiv((o.size[2] - 1) * o.spacing[2], new_size[2] - 1))
           /\ \A a \in 1..2 :
                 /\ MarginBefore(o, n, a) >= -2
                 /\ MarginAfter(o, n, a) >= -2
                 /\ Abs(MarginBefore(o, n, a) - MarginAfter(o, n, a)) <= 2

\* ---------------------------------------------------------------- C17
\* the latest cell compared img with one threshold
OneComparison == Len(comparison) = 1
\* the latest cell added two comparisons img > lo and img > hi with lo <= hi
TwoComparisons == Len(comparison) = 2 /\ comparison[1][2] <= comparison[2][2]

\* C17: every comparison operator (>, >=, <, <=, ==) applied to an image gives
\* an image of pixel type sitkUInt8 that is 1 exactly where the comparison holds
\* and 0 elsewhere; hence (img > lo) + (img > hi) with lo <= hi, as in
\* (img > 90) + (img > 150), has only the values 0, 1 and 2, without overflow,
\* and is 2 exactly where img > hi.
C17_ComparisonIsBinaryUInt8 ==
  /\ OneComparison =>
       /\ pythonic_shown.pixelID = "sitkUInt8"
       /\ pythonic_shown.size = pythonic_img.size
       /\ \A idx \in ArrayIndices(pythonic_img.size) :
            LET op == comparison[1][1]
                t == comparison[1][2]
                v == pythonic_img.pixels[idx]
                r == pythonic_shown.pixels[idx]
            IN  /\ r \in {0, 1}
                /\ op = ">" => (r = 1 <=> v > t)
                /\ op = ">=" => (r = 1 <=> v >= t)
                /\ op = "<" => (r = 1 <=> v < t)
                /\ op = "<=" => (r = 1 <=> v <= t)
                /\ op = "==" => (r = 1 <=> v = t)
  /\ TwoComparisons =>
       /\ pythonic_shown.pixelID = "sitkUInt8"
       /\ \A idx \in ArrayIndices(pythonic_img.size) :
            /\ pythonic_shown.pixels[idx] \in {0, 1, 2}
            /\ pythonic_shown.pixels[idx] = 2
                 <=> pythonic_img.pixels[idx] > comparison[2][2]
            /\ pythonic_shown.pixels[idx] = 1
                 <=> /\ pythonic_img.pixels[idx] > comparison[1][2]
                     /\ pythonic_img.pixels[idx] <= comparison[2][2]

\* the cell (img > 90) + (img > 150) has run on an image with pixels below 90,
\* between the thresholds and above 150
C17_Witness ==
  /\ comparison = <<<<">", 90>>, <<">", 150>>>>
  /\ \A r \in {0, 1, 2} :
       \E idx \in ArrayIndices(pythonic_img.size) : pythonic_shown.pixels[idx] = r

\* ---------------------------------------------------------------- C18
\* range(x, stop, step) cut to the indices of an axis of length n
RECURSIVE RangeFrom(_, _, _, _)
RangeFrom(x, stop, step, n) ==
  IF step > 0
  THEN (IF x < stop /\ x < n
        THEN <<x>> \o RangeFrom(x + step, stop, step, n)
        ELSE <<>>)
  ELSE (IF x > stop /\ x >= 0
        THEN <<x>> \o RangeFrom(x + step, stop, step, n)
        ELSE <<>>)

\* range(i, j, k) resolved against an axis of length n: omitted parts take the
\* ends of the axis in the direction of the step, negative parts count from
\* the end
PythonRange(sl, n) ==
  LET k == IF sl.step = <<>> THEN 1 ELSE sl.step[1]
      fromEnd(v) == IF v < 0 THEN v + n ELSE v
      i == IF sl.start = <<>>
           THEN (IF k > 0 THEN 0 ELSE n - 1)
           ELSE IF k > 0
                THEN (IF fromEnd(sl.start[1]) < 0 THEN 0 ELSE fromEnd(sl.start[1]))
                ELSE (IF fromEnd(sl.start[1]) > n - 1 THEN n - 1
                      ELSE fromEnd(sl.start[1]))
      j == IF sl.stop = <<>>
           THEN (IF k > 0 THEN n ELSE 0 - 1)
           ELSE IF fromEnd(sl.stop[1]) < 0 THEN 0 - 1 ELSE fromEnd(sl.stop[1])
  IN  RangeFrom(i, j, k, n)

\* what img[key] is by Python's slice semantics: along every axis with a slice
\* the pixels of range(i, j, k) in that order, an axis with an integer removed
PythonGetItem(image, key) ==
  LET kept == SelectSeq([a \in 1..Len(key) |-> a], LAMBDA a : key[a].kind = "slice")
      ranges == [a \in 1..Len(key) |->
                   IF key[a].kind = "slice"
                   THEN PythonRange(key[a], image.size[a])
                   ELSE <<IF key[a].start[1] < 0
                          THEN key[a].start[1] + image.size[a]
                          ELSE key[a].start[1]>>]
      size == [m \in 1..Len(kept) |-> Len(ranges[kept[m]])]
      position(a) == Cardinality({b \in 1..a : key[b].kind = "slice"})
  IN  [size |-> size,
       pixels |-> [idx \in ArrayIndices(size) |->
                     image.pixels[[a \in 1..Len(key) |->
                                     IF key[a].kind = "slice"
                                     THEN ranges[a][idx[position(a)] + 1]
                                     ELSE ranges[a][1]]]],
       pixelID |-> image.pixelID]

\* number of integer subscripts of a key
Integers_in(key) == Cardinality({a \in 1..Len(key) : key[a].kind = "int"})

\* C18: image slicing follows Python's slice semantics on every axis: img[i:j:k]
\* has along an axis of length n the pixels of range(i, j, k) resolved against
\* n, in that order (negative indices count from the end, a negative step
\* reverses the axis); an integer subscript removes its axis (3D to 2D); and
\* flipping the same axes twice with [::-1] gives the image back.
C18_SlicingFollowsPython ==
  keys # <<>> =>
    /\ Len(keys) = 1 => pythonic_shown = PythonGetItem(pythonic_img, keys[1])
    /\ Len(keys) = 2 =>
         pythonic_shown = PythonGetItem(PythonGetItem(pythonic_img, keys[1]), keys[2])
    /\ Len(keys) = 1 =>
         Len(pythonic_shown.size) = Len(pythonic_img.size) - Integers_in(keys[1])
    /\ (Len(keys) = 2 /\ keys[1] = keys[2]) => pythonic_shown = pythonic_img

\* the 3D image was subscripted with an integer, a negative stop and a
\* negative step at once, giving a 2D image
C18_Witness ==
  /\ Len(pythonic_img.size) = 3
  /\ Len(keys) = 1
  /\ Integers_in(keys[1]) = 1
  /\ \E a \in 1..3 : keys[1][a].kind = "slice" /\ keys[1][a].step = <<0 - 1>>
  /\ \E a \in 1..3 : keys[1][a].kind = "slice" /\ keys[1][a].stop = <<0 - 1>>
  /\ Len(pythonic_shown.size) = 2

\* ---------------------------------------------------------------- C20
\* kinds of transform with a closed-form inverse
InvertibleKinds == {"Identity", "Translation", "Affine", "Euler2D"}

\* C20: GetInverse on a Composite fails with NotInvertibleError if and only if
\* at least one of its sub-transforms has no inverse (a displacement field
\* transform), whatever the position of that sub-transform; for a Composite
\* made only of Identity, Translation, Affine and Rigid transforms it succeeds
\* and gives a Composite with one inverse per sub-transform.
C20_CompositeInverseFails ==
  pc = "inverted" =>
    /\ composite_inverse = NotInvertibleError
         <=> \E k \in 1..Len(composite.subs) :
               composite.subs[k].kind \notin InvertibleKinds
    /\ (\A k \in 1..Len(composite.subs) : composite.subs[k].kind \in InvertibleKinds)
         => /\ composite_inverse.kind = "Composite"
            /\ Len(composite_inverse.subs) = Len(composite.subs)

\* GetInverse failed on a composite whose displacement field transform was
\* added first and followed by an invertible transform
C20_Witness ==
  /\ pc = "inverted"
  /\ Len(composite.subs) = 2
  /\ composite.subs[1].kind = "DisplacementField"
  /\ composite.subs[2].kind \in InvertibleKinds
  /\ composite_inverse = NotInvertibleError

\* ---------------------------------------------------------------- C19
\* a Resample call has returned
ResampleReturned == pc \in {"done", "end"}

\* C19: Resample fails with InvalidGridError, and returns no image, whenever an
\* entry of the requested output Size is zero or negative; this includes a
\* Size computed by the grid derivation when the mapped extent along an axis
\* is smaller than one spacing.
C19_NonPositiveSizeFails ==
  ResampleReturned =>
    /\ (request.grid.size[1] <= 0 \/ request.grid.size[2] <= 0)
         => resampled = InvalidGridError
    /\ (request.grid.size[1] > 0 /\ request.grid.size[2] > 0)
         => resampled.size = request.grid.size

\* the grid derivation cell computed a Size with a zero entry from a logo
\* whose mapped extent is below one spacing, and Resample failed on it
C19_Witness ==
  /\ pc = "done"
  /\ request.grid = output_grid(logo, euler2d)
  /\ request.grid.size[1] = 0
  /\ request.grid.size[2] > 0
  /\ resampled = InvalidGridError

\* ---------------------------------------------------------------- C23
\* largest and smallest coordinate of a set of points along axis a
AxisMax(pts, a) == CHOOSE m \in {p[a] : p \in pts} : \A q \in pts : q[a] <= m
AxisMin(pts, a) == CHOOSE m \in {p[a] : p \in pts} : \A q \in pts : m <= q[a]

\* the grid derivation cell has run and its grid is the one of the request
GridDerived == pc = "done" /\ request.grid = output_grid(logo, euler2d)

\* C23: the grid derivation sets the output origin to the per-axis minimum of
\* the inverse-mapped corners and the output Size so that
\* origin + Size * spacing is never smaller than the maximum on any axis.
C23_GridCoversExtent ==
  GridDerived =>
    LET pts == {TransformPoint(GetInverse(euler2d), pnt) : pnt \in extreme_points(logo)}
    IN  \A a \in 1..2 :
          /\ request.grid.origin[a] = AxisMin(pts, a)
          /\ request.grid.origin[a] + request.grid.size[a] * request.grid.spacing[a]
               >= AxisMax(pts, a)

\* ---------------------------------------------------------------- C21
\* C21: after any sequence of SetParameters / SetOffset / SetTranslation calls
\* on a transform its dimension and its fixed parameters (the rotation centre)
\* are those of its construction, only the parameter vector changes, and
\* GetParameters returns the value set last.
C21_SettersKeepFixedParameters ==
  pc = "parameters" =>
    /\ \A t \in {translation, affine, euler2d} : GetDimension(t) = dimension
    /\ translation.kind = "Translation" /\ GetFixedParameters(translation) = <<>>
    /\ affine.kind = "Affine" /\ GetFixedParameters(affine) = Zero2
    /\ euler2d.kind = "Euler2D" /\ GetFixedParameters(euler2d) = logo_center(logo)
    /\ last_set.setter \in {"translation.SetParameters", "translation.SetOffset"}
         => GetParameters(translation) = last_set.argument
    /\ last_set.setter = "affine.SetParameters"
         => GetParameters(affine) = last_set.argument
    /\ last_set.setter = "affine.SetTranslation"
         => SubSeq(GetParameters(affine), 5, 6) = last_set.argument
    /\ last_set.setter = "euler2d.SetParameters"
         => GetParameters(euler2d) = last_set.argument
    /\ last_set.setter = "euler2d.SetTranslation"
         => SubSeq(GetParameters(euler2d), 2, 3) = last_set.argument

\* SetTranslation was the latest call, on a rigid transform whose centre is not
\* the origin and whose angle an earlier SetParameters had set, after the
\* translation transform and the affine transform had been set as well
C21_Witness ==
  /\ pc = "parameters"
  /\ last_set.setter = "euler2d.SetTranslation"
  /\ last_set.argument = <<3100, 4400>>
  /\ euler2d.center # Zero2
  /\ euler2d.angle = 90
  /\ translation.translation = <<3100, 4600>>
  /\ affine.matrix # IdentityMatrix

\* ---------------------------------------------------------------- C24
\* GetInverse was called on a composite whose sub-transforms all have an inverse
InvertedComposite ==
  /\ pc = "inverted"
  /\ \A k \in 1..Len(composite.subs) : composite.subs[k].kind \in InvertibleKinds

\* C24: for a Composite holding invertible sub-transforms t1, ..., tn in
\* insertion order, GetInverse returns a Composite whose sub-transforms are the
\* inverses in reverse order (the inverse of tn first, the inverse of t1 last),
\* and this Composite undoes the original on every point.
C24_InverseIsReversedInverses ==
  InvertedComposite =>
    LET n == Len(composite.subs)
    IN  /\ composite_inverse.kind = "Composite"
        /\ Len(composite_inverse.subs) = n
        /\ \A k \in 1..n :
             composite_inverse.subs[k] = GetInverse(composite.subs[n + 1 - k])
        /\ \A p \in TestPoints :
             Distance(TransformPoint(composite_inverse, TransformPoint(composite, p)), p)
               <= Tolerance

\* the composite holds a translation and then a rotation, which do not
\* commute, and its inverse brings a moved point back
C24_Witness ==
  /\ InvertedComposite
  /\ Len(composite.subs) = 2
  /\ composite.subs[1].kind = "Translation"
  /\ composite.subs[2].kind = "Euler2D"
  /\ composite.subs[2].angle # 0
  /\ composite_inverse.subs[1].kind = "Euler2D"
  /\ \E p \in TestPoints : Distance(TransformPoint(composite, p), p) > Tolerance

\* ---------------------------------------------------------------- C25
\* C25: when the per-pixel loop of Resample is split over workers by
\* partitioning the output index range, under every interleaving each output
\* pixel is written at most once while the call runs and exactly once, by one
\* worker, when it has finished; no worker writes the source image or the
\* transform; and the finished output equals that of the sequential loop.
C25_WorkersWriteDisjointPixels ==
  phase \in {"running", "finished"} =>
    /\ job = called_with
    /\ \A index \in Indices(job.grid.size) :
         /\ Len(written[index]) <= 1
         /\ written[index] = <<>> <=> \E w \in Workers : index \in todo[w]
         /\ written[index] = <<>> => buffer[index] = Unwritten
         /\ phase = "finished" => Len(written[index]) = 1
    /\ phase = "finished" =>
         outcome.image = Resample(job.image, job.grid, job.transform,
                                  job.interpolator, job.defaultValue)

\* a call finished in which both workers wrote pixels, some sampled from the
\* source and some given the default value
C25_Witness ==
  /\ phase = "finished"
  /\ \E i1 \in Indices(job.grid.size), i2 \in Indices(job.grid.size) :
       /\ written[i1] = <<1>>
       /\ written[i2] = <<2>>
       /\ outcome.image.pixels[i1] # job.defaultValue
       /\ outcome.image.pixels[i2] = job.defaultValue
  /\ job.transform.kind = "Euler2D"

\* ---------------------------------------------------------------- C22
\* the errors a Resample call raises
ResampleErrors == {"DimensionMismatchError", "InvalidGridError", "PixelTypeMismatchError"}

\* C22: a Resample call that fails returns no image, not a partly written
\* one, and leaves the source image and the transform unchanged; the error is
\* raised by the call whose arguments violate the contract, before any pixel
\* is written, and the call is not run again.
C22_FailureIsAtomic ==
  [][/\ phase' = "failed" =>
          /\ phase \in {"idle", "failed"}
          /\ job' = job
          /\ called_with' = job
          /\ outcome'.error = ResampleError(job)
          /\ outcome'.error \in ResampleErrors
          /\ outcome'.image.size = <<>>
          /\ outcome'.image.pixels = <<>>
          /\ buffer' = <<>>
          /\ written' = <<>>
     /\ phase = "failed" => UNCHANGED vars
     /\ (phase = "idle" /\ ResampleError(job) # "") => phase' = "failed"]_vars

\* a call failed on a transform of the wrong dimension although its grid was
\* a valid one
C22_Witness ==
  /\ phase = "failed"
  /\ outcome.error = "DimensionMismatchError"
  /\ job.grid.size = job.image.size
  /\ job.image.pixels # <<>>

\* ---------------------------------------------------------------- C26
\* the file of the latest iteration
LatestFile == file_names[iteration]

\* C26: in the image loading loop a file whose size has neither 2 nor 3
\* entries (a 4D or 5D image) makes the loop raise ValueError with the message
\* '<N>D image not supported.', N the dimension of that file.
C26_UnsupportedDimensionRaisesValueError ==
  (iteration > 0 /\ Len(FileSize(LatestFile)) \notin {2, 3}) =>
    /\ raised # <<>>
    /\ raised[1] = "ValueError"
    /\ raised[2] = Len(FileSize(LatestFile))

\* ---------------------------------------------------------------- C27
\* the extract size and extract index a file's own size asks for
OwnExtractSize(size) ==
  IF Len(size) = 2 THEN <<>>
  ELSE IF size[3] = 1 THEN <<size[1], size[2], 0>> ELSE <<size[1], 0, size[3]>>
OwnExtractIndex(size) ==
  IF Len(size) = 2 \/ size[3] = 1 THEN <<>> ELSE <<0, size[2] \div 2, 0>>

\* file_names holds 2D, single-slice 3D and full 3D files only
SupportedFiles == \A k \in 1..Len(file_names) : Len(FileSize(file_names[k])) \in {2, 3}

\* C27: for every order of 2D, single-slice 3D and full 3D files in file_names
\* the shared image_file_reader reads each file with an extract size and an
\* extract index determined by that file's own size only, so that settings
\* left from an earlier iteration never affect a later file, and one image is
\* appended to images per file, in file order.
C27_ReaderSettingsFromOwnFile ==
  SupportedFiles =>
    /\ Len(images) = iteration
    /\ \A k \in 1..Len(images) :
         /\ images[k].fileName = file_names[k]
         /\ images[k].extractSize = OwnExtractSize(FileSize(file_names[k]))
         /\ images[k].extractIndex = OwnExtractIndex(FileSize(file_names[k]))

====
